---- MODULE Spec2Model ----
(***************************************************************************)
(* A model of the Cradle agent (agenthatchery/cradle): the task engine's   *)
(* ReAct loop driven by the heartbeat and by the chat handler, the LLM     *)
(* router, the self-evolution pipeline and the first-boot bootstrap.       *)
(*                                                                         *)
(* Coroutines are modelled at their suspension points: one action is the   *)
(* code that runs between two awaits.  The process is single-threaded      *)
(* (asyncio), so such a block is atomic.                                   *)
(***************************************************************************)
EXTENDS Integers, Sequences, FiniteSets, TLC

(***************************************************************************)
(* Bounds of the model.                                                    *)
(***************************************************************************)
\* Number of tasks the engine may create before add_task is disabled.
MaxTasks == 2
\* Largest number of subtasks a "decompose" plan carries.
MaxSubtasks == 1
\* The monotonic clock stops at MaxTime seconds.
MaxTime == 300
\* A provider's consecutive-failure counter is not driven beyond MaxFailures.
MaxFailures == 4
\* Largest number of files in an LLM proposal.
MaxFiles == 3
\* Number of evolve() calls.
MaxEvolutions == 2
\* Number of process starts on one data directory.
MaxStarts == 3
\* Number of beats the heartbeat loop runs.
MaxBeats == 2
\* Number of run_python / run_shell calls on the sandbox driver.
MaxCalls == 3
\* Number of beats of one process in the model of the state file.
MaxPersistBeats == 10
\* Number of provider replies in the model of one complete() call after another.
MaxReplies == 2

(***************************************************************************)
(* Program constants.                                                      *)
(***************************************************************************)
\* Task.max_attempts (task_engine.py:48)
max_attempts == 3
\* heartbeat.py:163: at most this many ReAct passes per beat
TasksPerBeat == 3
\* LLMRouter.MAX_CONSECUTIVE_FAILURES (llm_router.py:47)
MAX_CONSECUTIVE_FAILURES == 3
\* LLMRouter.DEMOTION_COOLDOWN_SECS (llm_router.py:48)
DEMOTION_COOLDOWN_SECS == 300
\* evolver.py:254: a proposal with more files than this is trimmed to its first
MaxProposalFiles == 2
\* len(BOOTSTRAP_TASKS) (main.py:89-118)
NumBootstrapTasks == 3

\* The sentinel task_engine.py:169 looks for in stdout.
SELF_UPDATE_PUSHED == "SELF_UPDATE_PUSHED"

VARIABLES
    \* ---- TaskEngine ----
    tasks,            \* TaskEngine.tasks: id -> Task (ids are 1..Len(tasks), in creation order)
    queue,            \* TaskEngine._queue: FIFO of task ids
    \* ---- the two coroutines that call process_next ----
    pc,               \* where each caller is suspended
    cur,              \* the task of the ReAct pass the caller is in (0: none)
    res,              \* SandboxResult.success of the caller's pass while it reflects
    tasks_processed,  \* Heartbeat._beat's local counter
    exit_code,        \* 0 while the process runs; the status passed to sys.exit
    exit_by,          \* which component called sys.exit
    \* ---- history ----
    fifo              \* add_task / get_nowait order while no retry or decomposition occurred

engineVars == <<tasks, queue, pc, cur, res, tasks_processed, exit_code, exit_by, fifo>>

Callers == {"heartbeat", "chat"}

\* TaskStatus (task_engine.py:25-33)
TaskStatus == {"pending", "thinking", "acting", "executing", "reflecting",
               "completed", "failed", "blocked"}

\* res before the sandbox has returned
NoResult == "none"

\* A mutant of the constructor: the parent is not recorded in the child.
NewTask_without_parent(parent_id, source) ==
    [status |-> "pending", attempts |-> 0, parent_id |-> 0,
     children |-> <<>>, source |-> source, error |-> "", result |-> ""]

\* Task(...) as add_task builds it (task_engine.py:74-79); description is not modelled.
NewTask(parent_id, source) ==
    [status |-> "pending", attempts |-> 0, parent_id |-> parent_id,
     children |-> <<>>, source |-> source, error |-> "", result |-> ""]

\* A mutant of put_nowait: the id is enqueued twice.
put_nowait_twice(q, id) == Append(Append(q, id), id)

\* asyncio.Queue.put_nowait (task_engine.py:84, 190)
put_nowait(q, id) == Append(q, id)

\* A mutant of get_nowait: the newest entry is taken (LIFO).
get_nowait_lifo(q) == [id |-> q[Len(q)], rest |-> SubSeq(q, 1, Len(q) - 1)]

\* asyncio.Queue.get_nowait on a non-empty queue (task_engine.py:91)
get_nowait(q) == [id |-> Head(q), rest |-> Tail(q)]

\* TaskEngine.pending_count (task_engine.py:397-399)
pending_count(q) == Len(q)

\* A mutant of add_task: the parent's id is enqueued in place of the new task's.
add_task_enqueues_parent(ts, q, parent_id, source) ==
    LET id == Len(ts) + 1
        ts1 == Append(ts, NewTask(parent_id, source))
        ts2 == IF parent_id # 0 /\ parent_id \in 1..Len(ts1)
               THEN [ts1 EXCEPT ![parent_id].children = Append(@, id)]
               ELSE ts1
    IN  [tasks |-> ts2, queue |-> put_nowait(q, IF parent_id # 0 THEN parent_id ELSE id), id |-> id]

\* TaskEngine.add_task (task_engine.py:66-86); parent_id 0 is None.
add_task(ts, q, parent_id, source) ==
    LET id == Len(ts) + 1
        ts1 == Append(ts, NewTask(parent_id, source))
        ts2 == IF parent_id # 0 /\ parent_id \in 1..Len(ts1)
               THEN [ts1 EXCEPT ![parent_id].children = Append(@, id)]
               ELSE ts1
    IN  [tasks |-> ts2, queue |-> put_nowait(q, id), id |-> id]

\* The decompose loop (task_engine.py:119-125): n calls of add_task with parent_id = t.
RECURSIVE add_subtasks(_, _, _, _)
add_subtasks(ts, q, t, n) ==
    IF n = 0 THEN [tasks |-> ts, queue |-> q]
    ELSE LET a == add_task(ts, q, t, "self")
         IN  add_subtasks(a.tasks, a.queue, t, n - 1)

\* The head of _react_loop up to the first await (task_engine.py:103-108).
react_enter(ts, t) ==
    [ts EXCEPT ![t].attempts = @ + 1, ![t].status = "thinking"]

\* A mutant of the retry test: one attempt too many.
should_requeue_off_by_one(attempts, should_retry) ==
    attempts <= max_attempts /\ should_retry

\* The retry test (task_engine.py:187)
should_requeue(attempts, should_retry) ==
    attempts < max_attempts /\ should_retry

\* The plans _think can return (task_engine.py:277-287): the parsed JSON object, or
\* the direct-answer fallback.  "other" is any type that is neither direct_answer
\* nor decompose nor code (also a missing type).
Plans ==
    {[type |-> "direct_answer", answer |-> a, code |-> "", nsub |-> 0] : a \in {"hi"}}
    \cup {[type |-> "decompose", answer |-> "", code |-> "", nsub |-> n] : n \in 0..MaxSubtasks}
    \cup {[type |-> ty, answer |-> "", code |-> cd, nsub |-> 0] :
              ty \in {"code", "other"}, cd \in {"", "print(1)"}}

\* The results Sandbox.run_python / run_shell can return (sandbox.py:260-306).
\* Nothing reads stdout and stderr before the pass ends, so the model draws
\* success when the sandbox returns and the two streams where they are read.
\* A stream is empty or holds a text; the texts are chosen so that the engine's
\* defaults (task_engine.py:163, 186) and the program's own output meet in one
\* value of Task.result and Task.error.
SandboxResults ==
    {[success |-> TRUE, stdout |-> so, stderr |-> ""] :
         so \in {"", "Task completed", SELF_UPDATE_PUSHED}}
    \cup {[success |-> FALSE, stdout |-> so, stderr |-> se] :
              so \in {"", SELF_UPDATE_PUSHED}, se \in {"", "Unknown error"}}

\* The dicts _reflect can return (task_engine.py:315-337): the parsed JSON (any
\* should_retry, a missing one reads as false; any summary, a missing one reads as
\* "Task completed") or the fallback with should_retry = not success and attempts < max.
Reflections ==
    [should_retry : BOOLEAN, summary : {"Task completed"}]

(***************************************************************************)
(* History for the queue discipline: the ids in the order add_task         *)
(* enqueued them and in the order get_nowait returned them, kept while no  *)
(* retry re-enqueue and no decomposition has occurred.                     *)
(***************************************************************************)
fifo_add(f, id) == IF f.pure THEN [f EXCEPT !.enq = Append(@, id)] ELSE f
fifo_get(f, id) == IF f.pure THEN [f EXCEPT !.deq = Append(@, id)] ELSE f
fifo_spoil == [enq |-> <<>>, deq |-> <<>>, pure |-> FALSE]

Running == exit_code = 0

InPass == {"think", "exec", "reflect"}

(***************************************************************************)
(* TaskEngine.process_next and _react_loop                                 *)
(***************************************************************************)
\* process_next from the dequeue to the first await, inside _think
\* (task_engine.py:88-108), on the engine state (ts, q).
ProcessNext(c, ts, q, f) ==
    LET g == get_nowait(q)
    IN  /\ tasks' = react_enter(ts, g.id)
        /\ queue' = g.rest
        /\ cur' = [cur EXCEPT ![c] = g.id]
        /\ pc' = [pc EXCEPT ![c] = "think"]
        /\ fifo' = fifo_get(f, g.id)

\* process_next returns the task to its caller.  The chat handler replies and is
\* done (main.py:149-157).  The heartbeat counts the task and awaits the chat
\* notification of a completed or failed task, then the reflection store
\* (heartbeat.py:164-207); only a failed task has a step between the two awaits
\* (the self-healing task), so for any other status the two awaits are one
\* suspension point, "store".
EndPass(c, status) ==
    /\ pc' = [pc EXCEPT ![c] = IF c = "chat" THEN "idle"
                               ELSE IF status = "failed" THEN "notify"
                               ELSE "store"]
    /\ cur' = [cur EXCEPT ![c] = IF c = "heartbeat" /\ status = "failed" THEN @ ELSE 0]
    /\ res' = [res EXCEPT ![c] = NoResult]
    /\ tasks_processed' = IF c = "heartbeat" THEN tasks_processed + 1 ELSE tasks_processed

\* A mutant of the branch: every plan goes on to the Act phase.
plan_branch_always_act(plan) == IF plan.code = "" THEN "no_code" ELSE "execute"

\* The branch of _react_loop on the plan that _think returned
\* (task_engine.py:110-137)
plan_branch(plan) ==
    IF plan.type = "direct_answer" THEN "answer"
    ELSE IF plan.type = "decompose" THEN "decompose"
    ELSE IF plan.code = "" THEN "no_code"
    ELSE "execute"

\* _think returned {type: direct_answer} (task_engine.py:110-115)
ThinkDirectAnswer(c) ==
    /\ Running /\ pc[c] = "think"
    /\ \E plan \in Plans :
         /\ plan_branch(plan) = "answer"
         /\ tasks' = [tasks EXCEPT ![cur[c]].result = plan.answer,
                                   ![cur[c]].status = "completed"]
    /\ EndPass(c, "completed")
    /\ UNCHANGED <<queue, exit_code, exit_by, fifo>>

\* _think returned {type: decompose} (task_engine.py:117-127)
ThinkDecompose(c) ==
    /\ Running /\ pc[c] = "think"
    /\ \E plan \in Plans :
         /\ plan_branch(plan) = "decompose"
         /\ Len(tasks) + plan.nsub <= MaxTasks
         /\ LET d == add_subtasks(tasks, queue, cur[c], plan.nsub)
            IN  /\ tasks' = [d.tasks EXCEPT ![cur[c]].status = "blocked"]
                /\ queue' = d.queue
    /\ fifo' = fifo_spoil
    /\ EndPass(c, "blocked")
    /\ UNCHANGED <<exit_code, exit_by>>

\* _think returned any other plan, without code (task_engine.py:129-137)
ThinkNoCode(c) ==
    /\ Running /\ pc[c] = "think"
    /\ \E plan \in Plans :
         /\ plan_branch(plan) = "no_code"
         /\ tasks' = [tasks EXCEPT ![cur[c]].error = "Think phase produced no code",
                                   ![cur[c]].status = "failed"]
    /\ EndPass(c, "failed")
    /\ UNCHANGED <<queue, exit_code, exit_by, fifo>>

\* _think returned any other plan, with code: the sandbox is started
\* (task_engine.py:129-154)
ThinkCode(c) ==
    /\ Running /\ pc[c] = "think"
    /\ \E plan \in Plans :
         /\ plan_branch(plan) = "execute"
         /\ tasks' = [tasks EXCEPT ![cur[c]].status = "executing"]
    /\ pc' = [pc EXCEPT ![c] = "exec"]
    /\ UNCHANGED <<queue, cur, res, tasks_processed, exit_code, exit_by, fifo>>

\* The sandbox returned; _reflect is awaited (task_engine.py:156-158)
SandboxReturn(c) ==
    /\ Running /\ pc[c] = "exec"
    /\ \E r \in SandboxResults : res' = [res EXCEPT ![c] = r.success]
    /\ tasks' = [tasks EXCEPT ![cur[c]].status = "reflecting"]
    /\ pc' = [pc EXCEPT ![c] = "reflect"]
    /\ UNCHANGED <<queue, cur, tasks_processed, exit_code, exit_by, fifo>>

\* A mutant of the sentinel test: every successful pass asks for a restart.
self_update_pushed_always(stdout) == TRUE

\* "SELF_UPDATE_PUSHED" in (result.stdout or "") (task_engine.py:169); the text
\* SELF_UPDATE_PUSHED stands for every output that contains it.
self_update_pushed(stdout) == stdout = SELF_UPDATE_PUSHED

\* _reflect returned after a successful execution (task_engine.py:160-184).  The
\* memory write of lines 175-184 raises AttributeError (the engine has no memory
\* attribute), which line 183 swallows.
PassSucceeds(c) ==
    /\ Running /\ pc[c] = "reflect"
    /\ \E r \in SandboxResults, refl \in Reflections :
         /\ r.success /\ res[c] = r.success
         /\ tasks' = [tasks EXCEPT
                        ![cur[c]].result = IF r.stdout # "" THEN r.stdout ELSE refl.summary,
                        ![cur[c]].status = "completed"]
         /\ IF self_update_pushed(r.stdout)
            THEN \* sys.exit(42), task_engine.py:169-172
                 /\ exit_code' = 42 /\ exit_by' = "task_engine"
                 /\ UNCHANGED <<pc, cur, res, tasks_processed>>
            ELSE /\ EndPass(c, "completed")
                 /\ UNCHANGED <<exit_code, exit_by>>
    /\ UNCHANGED <<queue, fifo>>

\* _reflect returned after a failed execution (task_engine.py:185-196)
PassFails(c) ==
    /\ Running /\ pc[c] = "reflect"
    /\ \E r \in SandboxResults, refl \in Reflections :
         LET t == cur[c]
             err == IF r.stderr # "" THEN r.stderr ELSE "Unknown error"
         IN  /\ ~r.success /\ res[c] = r.success
             /\ IF should_requeue(tasks[t].attempts, refl.should_retry)
                THEN /\ queue' = put_nowait(queue, t)
                     /\ tasks' = [tasks EXCEPT ![t].error = err, ![t].status = "pending"]
                     /\ fifo' = fifo_spoil
                     /\ EndPass(c, "pending")
                ELSE /\ tasks' = [tasks EXCEPT ![t].error = err, ![t].status = "failed"]
                     /\ EndPass(c, "failed")
                     /\ UNCHANGED <<queue, fifo>>
    /\ UNCHANGED <<exit_code, exit_by>>

\* An exception leaves the pass: the router's RuntimeError out of _think
\* (llm_router.py:132), AttributeError on a parsed plan or reflection that is not a
\* JSON object (task_engine.py:110, 160), an error of the sandbox driver
\* (sandbox.py:76-97).  It ends the chat handler; it ends the beat, and the
\* heartbeat sleeps (heartbeat.py:144-150).  The task keeps its status.
PassRaises(c) ==
    /\ Running /\ pc[c] \in InPass
    /\ pc' = [pc EXCEPT ![c] = IF c = "chat" THEN "idle" ELSE "sleep"]
    /\ cur' = [cur EXCEPT ![c] = 0]
    /\ res' = [res EXCEPT ![c] = NoResult]
    /\ tasks_processed' = IF c = "heartbeat" THEN 0 ELSE tasks_processed
    /\ UNCHANGED <<tasks, queue, exit_code, exit_by, fifo>>

(***************************************************************************)
(* CradleAgent._handle_task                                                *)
(***************************************************************************)
\* add_task and process_next up to its first await (main.py:145-149)
ChatTask ==
    /\ Running /\ pc["chat"] = "idle"
    /\ Len(tasks) < MaxTasks
    /\ LET a == add_task(tasks, queue, 0, "user")
       IN  ProcessNext("chat", a.tasks, a.queue, fifo_add(fifo, a.id))
    /\ UNCHANGED <<res, tasks_processed, exit_code, exit_by>>

(***************************************************************************)
(* Heartbeat._beat                                                         *)
(***************************************************************************)
\* A mutant of the drain loop: no cap on the passes of a beat.
DrainOrFinish_uncapped(tp) ==
    IF pending_count(queue) > 0
    THEN /\ ProcessNext("heartbeat", tasks, queue, fifo)
         /\ tasks_processed' = tp
    ELSE /\ \E due \in BOOLEAN :
              IF due /\ pending_count(queue) = 0
              THEN /\ Len(tasks) < MaxTasks
                   /\ LET a == add_task(tasks, queue, 0, "self-improvement")
                      IN  /\ tasks' = a.tasks
                          /\ queue' = a.queue
                          /\ fifo' = fifo_add(fifo, a.id)
              ELSE UNCHANGED <<tasks, queue, fifo>>
         /\ pc' = [pc EXCEPT !["heartbeat"] = "sleep"]
         /\ cur' = [cur EXCEPT !["heartbeat"] = 0]
         /\ tasks_processed' = 0

\* The head of the drain loop with tasks_processed = tp (heartbeat.py:163-164),
\* and, when the loop is left, the idle seeding (heartbeat.py:212-230).  due stands
\* for beat_count % 20 == 0 and beat_count > 5.
DrainOrFinish(tp) ==
    IF pending_count(queue) > 0 /\ tp < TasksPerBeat
    THEN /\ ProcessNext("heartbeat", tasks, queue, fifo)
         /\ tasks_processed' = tp
    ELSE /\ \E due \in BOOLEAN :
              IF due /\ pending_count(queue) = 0
              THEN /\ Len(tasks) < MaxTasks
                   /\ LET a == add_task(tasks, queue, 0, "self-improvement")
                      IN  /\ tasks' = a.tasks
                          /\ queue' = a.queue
                          /\ fifo' = fifo_add(fifo, a.id)
              ELSE UNCHANGED <<tasks, queue, fifo>>
         /\ pc' = [pc EXCEPT !["heartbeat"] = "sleep"]
         /\ cur' = [cur EXCEPT !["heartbeat"] = 0]
         /\ tasks_processed' = 0

\* A beat starts (heartbeat.py:157-164)
HbBeat ==
    /\ Running /\ pc["heartbeat"] = "sleep"
    /\ DrainOrFinish(0)
    /\ UNCHANGED <<res, exit_code, exit_by>>

\* After the notification: the self-healing task (heartbeat.py:182-200); then the
\* reflection is stored (heartbeat.py:203-207).
HbSelfHeal ==
    /\ Running /\ pc["heartbeat"] = "notify"
    /\ LET t == cur["heartbeat"]
       IN  IF tasks[t].status = "failed" /\ tasks[t].error # ""
           THEN /\ Len(tasks) < MaxTasks
                /\ LET a == add_task(tasks, queue, t, "self-healing")
                   IN  /\ tasks' = a.tasks
                       /\ queue' = a.queue
                       /\ fifo' = fifo_add(fifo, a.id)
           ELSE UNCHANGED <<tasks, queue, fifo>>
    /\ pc' = [pc EXCEPT !["heartbeat"] = "store"]
    /\ cur' = [cur EXCEPT !["heartbeat"] = 0]
    /\ UNCHANGED <<res, tasks_processed, exit_code, exit_by>>

\* After the reflection is stored: back to the head of the drain loop
HbLoop ==
    /\ Running /\ pc["heartbeat"] = "store"
    /\ DrainOrFinish(tasks_processed)
    /\ UNCHANGED <<res, exit_code, exit_by>>

EngineInit ==
    /\ tasks = <<>>
    /\ queue = <<>>
    /\ pc = [c \in Callers |-> IF c = "chat" THEN "idle" ELSE "sleep"]
    /\ cur = [c \in Callers |-> 0]
    /\ res = [c \in Callers |-> NoResult]
    /\ tasks_processed = 0
    /\ exit_code = 0
    /\ exit_by = "none"
    /\ fifo = [enq |-> <<>>, deq |-> <<>>, pure |-> TRUE]

(***************************************************************************)
(* LLMRouter (llm_router.py)                                               *)
(***************************************************************************)
\* Callers of LLMRouter.complete that can be suspended in it at the same time
\* (task_engine.py:277 and 317 from the heartbeat and from the chat handler).
RouterCallers == {"heartbeat", "chat"}

\* Config.llm_providers, name and priority, of a deployment that may set
\* GEMINI_API_KEY and GROQ_API_KEY (config.py:76-137).
ConfiguredProviders ==
    <<[name |-> "gemini", priority |-> 1],
      [name |-> "groq", priority |-> 3]>>

ProviderNames == {ConfiguredProviders[k].name : k \in DOMAIN ConfiguredProviders}

\* preferred_provider as the callers pass it (task_engine.py:277, 318); "" is None.
Preferred == {"", "groq"}

\* self._demoted_until.get(name, 0) (llm_router.py:79)
NotDemoted == 0

\* last_error = None (llm_router.py:75)
NoError == [from |-> "None"]

\* A mutant of the sort: the preferred provider is not moved.
sort_key_ignores_preferred(pr, preferred) == pr.priority

\* The sort key of llm_router.py:73
sort_key(pr, preferred) == IF pr.name = preferred THEN 0 ELSE pr.priority

\* list.sort is stable: x goes behind every element whose key is not larger.
RECURSIVE insert_sorted(_, _, _)
insert_sorted(x, sorted, preferred) ==
    IF sorted = <<>> THEN <<x>>
    ELSE IF sort_key(Head(sorted), preferred) <= sort_key(x, preferred)
         THEN <<Head(sorted)>> \o insert_sorted(x, Tail(sorted), preferred)
         ELSE <<x>> \o sorted

RECURSIVE sorted_by_key(_, _)
sorted_by_key(ps, preferred) ==
    IF ps = <<>> THEN <<>>
    ELSE insert_sorted(ps[Len(ps)],
                       sorted_by_key(SubSeq(ps, 1, Len(ps) - 1), preferred), preferred)

\* providers = list(self.providers), sorted only when a preferred provider is
\* given (llm_router.py:69-73)
call_order(ps, preferred) ==
    IF preferred # "" THEN sorted_by_key(ps, preferred) ELSE ps

\* The skip test (llm_router.py:80)
is_demoted(until, now) == until > now

\* A mutant of the demotion test: demotion one failure late.
should_demote_late(n) == n > MAX_CONSECUTIVE_FAILURES

\* A mutant of the demotion test: the third failure of a streak, no later one.
should_demote_third_only(n) == n = MAX_CONSECUTIVE_FAILURES

\* The demotion test (llm_router.py:123)
should_demote(n) == n >= MAX_CONSECUTIVE_FAILURES

\* A mutant of the except branch: the first error is kept.
next_last_error_keeps_first(last_error, e) == IF last_error = NoError THEN e ELSE last_error

\* last_error = e (llm_router.py:115)
next_last_error(last_error, e) == e

VARIABLES
    \* ---- LLMRouter ----
    providers,             \* LLMRouter.providers
    consecutive_failures,  \* LLMRouter._consecutive_failures (a missing key reads 0)
    demoted_until,         \* LLMRouter._demoted_until (a missing key reads 0)
    clock,                 \* time.monotonic(), in seconds
    call,                  \* per caller: the locals of its complete() call and its outcome
    \* ---- history ----
    health                 \* per provider: streak, the consecutive failures as the events came;
                           \* third, the time of the streak's third failure; bad, the time
                           \* of the latest failure that was a streak's third or later

routerVars == <<providers, consecutive_failures, demoted_until, clock, call, health>>

\* The clock advances in steps of these many seconds.
TickSecs == {150}

\* The locals of complete() before a call; log is the history of the loop's
\* decisions.  A call that has returned or raised keeps its outcome (response or
\* last_error) and its log; its other locals are dead.
IdleCall ==
    [pc |-> "idle", preferred |-> "", order |-> <<>>, i |-> 0, now |-> 0,
     last_error |-> NoError, response |-> "None", log |-> <<>>]

\* One decision of the loop on provider name in a call with now = now, taken at
\* time clk: skipped or tried, and what held at that moment:
\*   demoted: the provider's demoted_until lies after now;
\*   cooled:  the streak has no third failure, or that failure is at least
\*            DEMOTION_COOLDOWN_SECS old;
\*   marked:  a third or later consecutive failure is less than DEMOTION_COOLDOWN_SECS
\*            older than now.
LogEntry(name, act, du, now, clk, h) ==
    [name |-> name, act |-> act, result |-> IF act = "try" THEN "pending" ELSE "skipped",
     demoted |-> du[name] > now,
     cooled |-> \A t \in h[name].third : clk >= t + DEMOTION_COOLDOWN_SECS,
     marked |-> \E t \in h[name].bad : now < t + DEMOTION_COOLDOWN_SECS]

\* The for loop from its position r.i up to the next await or to the raise
\* (llm_router.py:77-86, 132): demoted providers are skipped, the first other one
\* is called; with no provider left the RuntimeError is raised.
RECURSIVE advance(_, _, _, _)
advance(r, du, clk, h) ==
    IF r.i > Len(r.order) THEN [r EXCEPT !.pc = "raised", !.i = 0, !.now = 0]
    ELSE LET name == r.order[r.i].name
         IN  IF is_demoted(du[name], r.now)
             THEN advance([r EXCEPT !.i = @ + 1,
                                    !.log = Append(@, LogEntry(name, "skip", du, r.now, clk, h))],
                          du, clk, h)
             ELSE [r EXCEPT !.pc = "await",
                            !.log = Append(@, LogEntry(name, "try", du, r.now, clk, h))]

\* complete() is called (llm_router.py:60-86)
RouterCall(c, preferred) ==
    /\ call[c].pc # "await"
    /\ call' = [call EXCEPT ![c] =
                  advance([IdleCall EXCEPT !.preferred = preferred,
                                           !.order = call_order(providers, preferred),
                                           !.i = 1, !.now = clock],
                          demoted_until, clock, health)]
    /\ UNCHANGED <<providers, consecutive_failures, demoted_until, clock, health>>

\* _call_provider returned a response (llm_router.py:87-112)
ProviderSucceeds(c) ==
    /\ call[c].pc = "await"
    /\ LET r == call[c]
           name == r.order[r.i].name
       IN  /\ consecutive_failures' = [consecutive_failures EXCEPT ![name] = 0]
           /\ health' = [health EXCEPT ![name].streak = 0, ![name].third = {}]
           /\ call' = [call EXCEPT ![c] =
                         [r EXCEPT !.pc = "returned", !.i = 0, !.now = 0,
                                   !.response = [provider |-> name],
                                   !.log[Len(r.log)].result = "ok"]]
    /\ UNCHANGED <<providers, demoted_until, clock>>

\* _call_provider raised (llm_router.py:114-130), and the loop goes on.
ProviderFails(c) ==
    /\ call[c].pc = "await"
    /\ LET r == call[c]
           name == r.order[r.i].name
           n == consecutive_failures[name] + 1
           du == IF should_demote(n)
                 THEN [demoted_until EXCEPT ![name] = clock + DEMOTION_COOLDOWN_SECS]
                 ELSE demoted_until
           k == health[name].streak + 1
           h == [health EXCEPT ![name] =
                    [streak |-> k,
                     third |-> IF k = MAX_CONSECUTIVE_FAILURES THEN {clock} ELSE @.third,
                     bad |-> IF k >= MAX_CONSECUTIVE_FAILURES THEN {clock} ELSE @.bad]]
       IN  /\ consecutive_failures[name] < MaxFailures
           /\ consecutive_failures' = [consecutive_failures EXCEPT ![name] = n]
           /\ demoted_until' = du
           /\ health' = h
           /\ call' = [call EXCEPT ![c] =
                         advance([r EXCEPT !.last_error = next_last_error(@, [from |-> name]),
                                           !.log[Len(r.log)].result = "fail",
                                           !.i = @ + 1],
                                 du, clock, h)]
    /\ UNCHANGED <<providers, clock>>

\* Time passes.
Tick ==
    /\ \E d \in TickSecs : clock + d <= MaxTime /\ clock' = clock + d
    /\ UNCHANGED <<providers, consecutive_failures, demoted_until, call, health>>

\* Every sublist of the configured providers: the keys that are set (config.py:78-137).
ProviderLists ==
    {SelectSeq(ConfiguredProviders, LAMBDA pr : pr.name \in S) : S \in SUBSET ProviderNames}

\* LLMRouter.__init__ (llm_router.py:50-55) at any moment of the monotonic clock
RouterInit ==
    /\ providers \in ProviderLists
    /\ consecutive_failures = [n \in ProviderNames |-> 0]
    /\ demoted_until = [n \in ProviderNames |-> NotDemoted]
    /\ clock = 0
    /\ call = [c \in RouterCallers |-> IdleCall]
    /\ health = [n \in ProviderNames |-> [streak |-> 0, third |-> {}, bad |-> {}]]


(***************************************************************************)
(* Evolver (evolver.py)                                                    *)
(***************************************************************************)
\* A path is the sequence of its "/"-separated segments.
\* PROTECTED (evolver.py:71-72)
PROTECTED ==
    {<<"cradle", "main.py">>, <<"cradle", "config.py">>, <<"cradle", "evolver.py">>,
     <<"main.py">>, <<"config.py">>, <<"evolver.py">>, <<"Dockerfile">>, <<"entrypoint.sh">>}

\* os.path.basename: what follows the last "/"
basename(path) == <<path[Len(path)]>>

\* A mutant of the protection test: only the full path is looked up.
is_protected_full_path_only(path) == path \in PROTECTED

\* The test of evolver.py:74
is_protected(path) == path \in PROTECTED \/ basename(path) \in PROTECTED

\* A mutant of the filter: one protected key empties the whole dict.
filter_protected_rejects_all(files) ==
    IF \E k \in DOMAIN files : is_protected(files[k]) THEN <<>> ELSE files

\* The loop of evolver.py:73-76 on the keys of the files dict, in insertion order
filter_protected(files) == SelectSeq(files, LAMBDA path : ~is_protected(path))

\* The paths an LLM proposal draws its keys from: protected by full path, protected
\* by basename only, and two unprotected ones.
ProposalPaths ==
    {<<"cradle", "main.py">>, <<"src", "cradle", "config.py">>,
     <<"cradle", "task_engine.py">>, <<"README.md">>}

\* The sequences of at most n distinct elements of S: the key orders of a dict.
RECURSIVE SeqsOfDistinct(_, _)
SeqsOfDistinct(S, n) ==
    IF n = 0 THEN {<<>>}
    ELSE LET shorter == SeqsOfDistinct(S, n - 1)
         IN  shorter \cup
             {Append(y[1], y[2]) :
                  y \in {z \in shorter \X S :
                             Len(z[1]) = n - 1 /\ \A k \in DOMAIN z[1] : z[1][k] # z[2]}}

\* _extract_json found no JSON object, or an empty one (evolver.py:239-242)
NoProposal ==
    [json |-> FALSE, risk |-> "", has_files |-> FALSE, files |-> <<>>, test_code |-> ""]

\* The values of "risk" in the LLM's JSON: "" is a missing key, "critical" any
\* string other than the three of the prompt (evolver.py:208).
Risks == {"", "low", "medium", "high", "critical"}

\* The values of "test_code": missing or empty, blank, a program.
TestCodes == {"", " ", "assert ok"}

\* What _extract_json can yield from the LLM's text; has_files is false when
\* "files" is missing or not a dict.
RawProposals ==
    {NoProposal} \cup
    [json : {TRUE}, risk : Risks, has_files : BOOLEAN,
     files : SeqsOfDistinct(ProposalPaths, MaxFiles), test_code : TestCodes]

\* not test_code.strip() (evolver.py:304)
blank(test_code) == test_code \in {"", " "}

\* The timeout of the test run, in seconds (evolver.py:307)
TEST_TIMEOUT == 30

\* No sandbox call made by evolve()
NoTestRun == [ran |-> FALSE, timeout |-> 0, network |-> FALSE]

\* sandbox.run_python(test_code, timeout=30, network=False) (evolver.py:307)
test_run == [ran |-> TRUE, timeout |-> TEST_TIMEOUT, network |-> FALSE]

\* A mutant of the test gate: the result of the test is not read.
after_test_ignored(test_ok) == "create"

\* Where evolve() goes on after _test_proposal returned test_ok (evolver.py:83-93)
after_test(test_ok) == IF test_ok THEN "create" ELSE "store_failure"

\* _propose_improvement from the parsed JSON on (evolver.py:239-259); NoProposal is None.
propose_improvement(raw) ==
    IF ~raw.json THEN NoProposal
    ELSE IF (IF raw.risk = "" THEN "high" ELSE raw.risk) = "high" THEN NoProposal
    ELSE IF ~raw.has_files THEN NoProposal
    ELSE IF Len(raw.files) > MaxProposalFiles
         THEN [raw EXCEPT !.files = <<raw.files[1]>>]
         ELSE raw

\* A mutant of the handlers: a bare except, which also catches SystemExit.
caught_by_bare_except(exc) == TRUE

\* "except Exception" (evolver.py:147, heartbeat.py:148, 242): SystemExit is not an
\* Exception.
caught_by_except_Exception(exc) == exc = "Exception"

\* A mutant of the cleanup: the branch is deleted only after a failed merge.
cleanup_after_merge_only(step) == step = "merge_branch"

\* The failed repository steps after which delete_branch is awaited
\* (evolver.py:99-113)
cleanup_after(step) == step \in {"push_files", "merge_branch"}

VARIABLES
    \* ---- Evolver ----
    evolution_count,  \* Evolver.evolution_count
    ev                \* the evolve() call: its locals, what it did to the repository, its outcome

evolverVars == <<evolution_count, ev>>

\* Who awaits evolve(): the heartbeat (heartbeat.py:237) or /evolve (main.py:168)
EvolveCallers == {"heartbeat", "chat"}

\* No evolve() call yet.  files: files_to_push; failed_step: the repository step
\* that returned False; summary: the string returned; exit: the status of the
\* process exit requested.  History: proposed, the keys of the LLM's "files" as
\* parsed; log, the repository and memory operations awaited, in order, with their
\* results; put, the paths put_file was called with; merged, the paths merged into
\* the default branch; accepted, the keys of "files" of the proposal that
\* _propose_improvement returned (none if it returned None); before,
\* evolution_count when evolve() was called; risk, the "risk" of the LLM's JSON;
\* test_run, the sandbox call of _test_proposal; tested, its outcome.
IdleEvolve ==
    [pc |-> "idle", caller |-> "none", files |-> <<>>, test_code |-> "",
     failed_step |-> "none", summary |-> "", exit |-> 0,
     proposed |-> <<>>, log |-> <<>>, put |-> {}, written |-> {}, merged |-> {},
     accepted |-> <<>>, before |-> 0,
     risk |-> "", test_run |-> NoTestRun, tested |-> "no"]

\* evolve() returns summary (any return statement of evolver.py:48-149)
EvolveReturn(r, summary) ==
    ev' = [r EXCEPT !.pc = "done", !.summary = summary]

\* An exception of class exc leaves the try block of evolve(): SystemExit is
\* re-raised, any other is tested by "except Exception" (evolver.py:145-149).  What
\* leaves evolve() meets the heartbeat's handler (heartbeat.py:236-243); nothing in
\* the chat handler catches it (main.py:166-168).  What is not caught ends the
\* process, with status 42 for sys.exit(42).
EvolveThrow(r, exc) ==
    IF exc # "SystemExit" /\ caught_by_except_Exception(exc)
    THEN ev' = [r EXCEPT !.pc = "done", !.summary = "Evolution failed"]
    ELSE IF r.caller = "heartbeat" /\ caught_by_except_Exception(exc)
    THEN ev' = [r EXCEPT !.pc = "done", !.summary = "Self-evolution failed"]
    ELSE ev' = [r EXCEPT !.pc = "done", !.exit = IF exc = "SystemExit" THEN 42 ELSE 1]

\* One awaited repository or memory operation and its result
Step(op, ok) == [op |-> op, ok |-> ok]

\* evolve() up to its first await (evolver.py:48-60); src_ok: _read_source found files.
EvolveStart(c) ==
    /\ ev.pc \in {"idle", "done"} /\ ev.exit = 0
    /\ evolution_count < MaxEvolutions
    /\ evolution_count' = evolution_count + 1
    /\ \E src_ok \in BOOLEAN :
         ev' = IF src_ok
               THEN [IdleEvolve EXCEPT !.pc = "propose", !.caller = c,
                                       !.before = evolution_count]
               ELSE [IdleEvolve EXCEPT !.pc = "done", !.caller = c,
                                       !.before = evolution_count,
                                       !.summary = "could not read source files"]

\* _propose_improvement returned; validation up to the next await: the sandbox
\* call of _test_proposal, or create_branch when test_code is empty or blank
\* (evolver.py:60-98, 302-307)
ProposeReturns ==
    /\ ev.pc = "propose"
    /\ \E raw \in RawProposals :
         LET proposal == propose_improvement(raw)
             files_to_push == filter_protected(proposal.files)
             r == [ev EXCEPT !.proposed = raw.files, !.accepted = proposal.files,
                             !.risk = raw.risk]
         IN  IF proposal = NoProposal
             THEN EvolveReturn(r, "No improvements proposed this cycle")
             ELSE IF proposal.files = <<>>
             THEN EvolveReturn(r, "No file changes in proposal")
             ELSE IF files_to_push = <<>>
             THEN EvolveReturn(r, "All proposed files are protected")
             ELSE ev' = [r EXCEPT !.files = files_to_push,
                                   !.test_code = proposal.test_code,
                                   !.test_run = IF blank(proposal.test_code)
                                                THEN NoTestRun ELSE test_run,
                                   !.pc = IF blank(proposal.test_code)
                                          THEN "create" ELSE "test"]
    /\ UNCHANGED evolution_count

\* An await of the proposal or of the test raised: the memory port's result is not
\* a list of dicts (memory.py:289), the sandbox driver failed (sandbox.py:76-97).
EvolveRaises ==
    /\ ev.pc \in {"propose", "test"}
    /\ EvolveThrow(ev, "Exception")
    /\ UNCHANGED evolution_count

\* The sandbox returned to _test_proposal, success = test_ok, and _test_proposal
\* to evolve() (evolver.py:82-92, 307-314)
TestReturns ==
    /\ ev.pc = "test"
    /\ \E test_ok \in BOOLEAN :
         ev' = [ev EXCEPT !.pc = after_test(test_ok),
                          !.tested = IF test_ok THEN "passed" ELSE "failed"]
    /\ UNCHANGED evolution_count

\* memory.store of the failed test returned (evolver.py:86-92)
StoreFailureReturns ==
    /\ ev.pc = "store_failure"
    /\ \E ok \in BOOLEAN :
         ev' = [ev EXCEPT !.pc = "done", !.summary = "Proposed changes failed testing",
                          !.log = Append(@, Step("memory_store_failure", ok))]
    /\ UNCHANGED evolution_count


Range(seq) == {seq[k] : k \in DOMAIN seq}

\* The summaries of the failed repository steps (evolver.py:101, 109, 115)
FailureSummary(step) ==
    CASE step = "create_branch" -> "Failed to create evolution branch"
      [] step = "push_files" -> "Failed to push changes to GitHub"
      [] step = "merge_branch" -> "Failed to merge evolution branch"

\* A repository step returned False: delete_branch is awaited first, or the
\* summary is returned at once (evolver.py:99-115).
RepoStepFailed(step, r) ==
    ev' = IF cleanup_after(step)
          THEN [r EXCEPT !.failed_step = step, !.pc = "cleanup"]
          ELSE [r EXCEPT !.failed_step = step, !.pc = "done",
                         !.summary = FailureSummary(step)]

\* github.create_branch returned (evolver.py:98-104)
CreateReturns ==
    /\ ev.pc = "create"
    /\ \E ok \in BOOLEAN :
         LET r == [ev EXCEPT !.log = Append(@, Step("create_branch", ok))]
         IN  IF ok THEN ev' = [r EXCEPT !.pc = "push"]
             ELSE RepoStepFailed("create_branch", r)
    /\ UNCHANGED evolution_count

\* A mutant of push_files: the result is that of the last write.
push_files_last_write(files, wrote) == files = <<>> \/ wrote[files[Len(files)]]

\* The result of GitHubClient.push_files (github_client.py:198-204): put_file is
\* called for every file, in the dict's order; wrote[path] is what it returned.
push_files(files, wrote) == \A i \in 1..Len(files) : wrote[files[i]]

\* github.push_files returned (evolver.py:105-112); written: the files whose
\* put_file succeeded, which are on the evolution branch.
PushReturns ==
    /\ ev.pc = "push"
    /\ \E wrote \in [Range(ev.files) -> BOOLEAN] :
         LET ok == push_files(ev.files, wrote)
             r == [ev EXCEPT !.log = Append(@, Step("push_files", ok)),
                             !.put = Range(ev.files),
                             !.written = {path \in Range(ev.files) : wrote[path]}]
         IN  IF ok THEN ev' = [r EXCEPT !.pc = "merge"]
             ELSE RepoStepFailed("push_files", r)
    /\ UNCHANGED evolution_count

\* github.merge_branch returned (evolver.py:111-118)
MergeReturns ==
    /\ ev.pc = "merge"
    /\ \E ok \in BOOLEAN :
         LET r == [ev EXCEPT !.log = Append(@, Step("merge_branch", ok))]
         IN  IF ok THEN ev' = [r EXCEPT !.pc = "delete", !.merged = ev.written]
             ELSE RepoStepFailed("merge_branch", r)
    /\ UNCHANGED evolution_count

\* delete_branch returned after a failed step; its result is not read
\* (evolver.py:108-109, 114-115)
CleanupReturns ==
    /\ ev.pc = "cleanup"
    /\ \E ok \in BOOLEAN :
         ev' = [ev EXCEPT !.log = Append(@, Step("delete_branch", ok)),
                          !.pc = "done", !.summary = FailureSummary(ev.failed_step)]
    /\ UNCHANGED evolution_count

\* delete_branch returned after the merge; its result is not read
\* (evolver.py:117-121)
DeleteReturns ==
    /\ ev.pc = "delete"
    /\ \E ok \in BOOLEAN :
         ev' = [ev EXCEPT !.log = Append(@, Step("delete_branch", ok)), !.pc = "memory"]
    /\ UNCHANGED evolution_count

\* memory.store of the evolution record returned, its result is not read; then
\* sys.exit(42) (evolver.py:120-143)
MemoryReturns ==
    /\ ev.pc = "memory"
    /\ \E ok \in BOOLEAN :
         EvolveThrow([ev EXCEPT !.log = Append(@, Step("memory_store", ok))], "SystemExit")
    /\ UNCHANGED evolution_count

EvolverInit ==
    /\ evolution_count = 0
    /\ ev = IdleEvolve


(***************************************************************************)
(* CradleAgent._bootstrap over the starts of the process (main.py)         *)
(***************************************************************************)
VARIABLES
    boot   \* the data directory's sentinel, the process, and what bootstrap has done

bootVars == <<boot>>

\* A fresh data directory and no process.  marker: .bootstrapped exists; i: the
\* position of the seeding loop; history: starts of the process, seed_runs (times
\* the whole set of bootstrap tasks was seeded), marker_writes (times the
\* sentinel was written), stores (times the masterplan was stored).
BootInit ==
    boot = [pc |-> "off", marker |-> FALSE, i |-> 0, starts |-> 0,
            seed_runs |-> 0, marker_writes |-> 0, stores |-> 0]

\* The process starts with an empty engine; _bootstrap up to its first await
\* (main.py:124-143, 174-196)
BootStart ==
    /\ boot.pc = "off" /\ boot.starts < MaxStarts
    /\ tasks' = <<>> /\ queue' = <<>>
    /\ boot' = [boot EXCEPT !.starts = @ + 1, !.i = 0,
                            !.pc = IF boot.marker THEN "up" ELSE "store"]

\* memory.store of the masterplan returned; its result is not read (main.py:188-196)
BootStoreReturns ==
    /\ boot.pc = "store"
    /\ \E ok \in BOOLEAN :
         boot' = [boot EXCEPT !.pc = "seed", !.stores = IF ok THEN @ + 1 ELSE @]
    /\ UNCHANGED <<tasks, queue>>

\* One round of the seeding loop (main.py:199-204)
BootSeedTask ==
    /\ boot.pc = "seed"
    /\ LET a == add_task(tasks, queue, 0, "bootstrap")
           last == boot.i + 1 = NumBootstrapTasks
       IN  /\ tasks' = a.tasks
           /\ queue' = a.queue
           /\ boot' = [boot EXCEPT !.i = @ + 1,
                                   !.seed_runs = IF last THEN @ + 1 ELSE @,
                                   !.pc = IF last THEN "mark" ELSE "seed"]

\* The sentinel is written, or the write raises and the error is dropped
\* (main.py:207-213)
BootMark ==
    /\ boot.pc = "mark"
    /\ \E ok \in BOOLEAN :
         boot' = [boot EXCEPT !.pc = "up",
                              !.marker = @ \/ ok,
                              !.marker_writes = IF ok THEN @ + 1 ELSE @]
    /\ UNCHANGED <<tasks, queue>>

\* The process exits or is killed, at any point.
ProcessStops ==
    /\ boot.pc # "off"
    /\ boot' = [boot EXCEPT !.pc = "off"]
    /\ UNCHANGED <<tasks, queue>>

(***************************************************************************)
(* TelegramBot (telegram_bot.py) and the callbacks CradleAgent wires to it *)
(***************************************************************************)
\* Config.allowed_telegram_user (config.py:29, 57), one character per element
ALLOWED_TELEGRAM_USER == <<"@", "b", "o", "b">>

\* str.lstrip("@") (telegram_bot.py:34)
RECURSIVE lstrip_at(_)
lstrip_at(s) == IF s # <<>> /\ Head(s) = "@" THEN lstrip_at(Tail(s)) ELSE s

\* TelegramBot.allowed_user (telegram_bot.py:34)
allowed_user == lstrip_at(ALLOWED_TELEGRAM_USER)

\* update.effective_user: None (an update without a sender), or a user whose
\* username is None or a handle, which Telegram delivers without the "@".
NoUser == [user |-> FALSE, named |-> FALSE, username |-> <<>>]
Users ==
    {NoUser, [user |-> TRUE, named |-> FALSE, username |-> <<>>]}
    \cup {[user |-> TRUE, named |-> TRUE, username |-> h] :
              h \in {<<"b", "o", "b">>, <<"B", "o", "b">>, <<"e", "v", "e">>}}

\* A mutant of _is_authorized: any update that has a sender is accepted.
is_authorized_any_sender(u) == u.user

\* TelegramBot._is_authorized (telegram_bot.py:44-52)
is_authorized(u) == u.user /\ u.named /\ u.username = allowed_user

\* The handlers registered in TelegramBot.start (telegram_bot.py:160-168);
\* "text" is a message that is not a command.
UpdateKinds == {"start", "status", "task", "cost", "evolve", "plan", "text"}

\* update.effective_chat.id
ChatIds == {1, 2}

\* What a step of a handler did towards the user and the agent.
Nothing == [reply |-> FALSE, callback |-> "none"]
Did(reply, callback) == [reply |-> reply, callback |-> callback]

VARIABLES
    bot               \* TelegramBot: the handler's position, _chat_id (0: None), and
                      \* history: the sender of the last update, a bit that flips at
                      \* every update, what the last step did, the task _handle_task
                      \* added and the task its process_next dequeued

botVars == <<bot>>

BotInit ==
    bot = [pc |-> "idle", chat_id |-> 0, sender |-> NoUser, flip |-> FALSE,
           did |-> Nothing, added |-> 0, ran |-> 0, reported |-> 0]

\* An update arrives and its handler runs up to the callback
\* (telegram_bot.py:54-130).  Updates are handled one at a time.  args is
\* whether /task came with a description.
BotUpdate(kind, u, chat, args) ==
    /\ Running /\ bot.pc = "idle" /\ pc["chat"] = "idle"
    /\ LET seen == [bot EXCEPT !.sender = u, !.flip = ~@, !.did = Nothing,
                               !.added = 0, !.ran = 0, !.reported = 0]
           mine == [seen EXCEPT !.chat_id = chat]
       IN  bot' =
             IF ~is_authorized(u) THEN seen
             ELSE IF kind = "start" THEN [mine EXCEPT !.did = Did(TRUE, "none")]
             ELSE IF kind \in {"status", "plan"} THEN [mine EXCEPT !.did = Did(TRUE, "status")]
             ELSE IF kind = "cost" THEN [mine EXCEPT !.did = Did(TRUE, "cost")]
             ELSE IF kind = "task" /\ ~args THEN [mine EXCEPT !.did = Did(TRUE, "none")]
             ELSE IF kind = "evolve"
                  THEN [mine EXCEPT !.did = Did(TRUE, "none"), !.pc = "on_evolve"]
             ELSE [mine EXCEPT !.did = Did(TRUE, "none"), !.pc = "on_task"]
    /\ UNCHANGED <<engineVars, evolution_count, ev>>

\* on_task: CradleAgent._handle_task up to the first await of process_next
\* (telegram_bot.py:90, 127; main.py:145-149)
BotOnTask ==
    /\ bot.pc = "on_task"
    /\ ChatTask
    /\ bot' = [bot EXCEPT !.pc = "in_task", !.did = Did(FALSE, "task"),
                          !.added = Len(tasks'), !.ran = cur'["chat"]]
    /\ UNCHANGED <<evolution_count, ev>>

\* process_next returned: _handle_task formats the task it got and the handler
\* sends that text (main.py:150-157; telegram_bot.py:91, 128)
BotTaskReply ==
    /\ Running /\ bot.pc = "in_task" /\ pc["chat"] = "idle"
    /\ bot' = [bot EXCEPT !.pc = "idle", !.did = Did(TRUE, "none"), !.reported = bot.ran]
    /\ UNCHANGED <<engineVars, evolution_count, ev>>

\* process_next raised: the exception leaves _handle_task and the handler, and
\* no reply is sent.
BotTaskRaises ==
    /\ bot.pc = "in_task"
    /\ PassRaises("chat")
    /\ bot' = [bot EXCEPT !.pc = "idle", !.did = Nothing]
    /\ UNCHANGED <<evolution_count, ev>>

\* on_evolve: Evolver.evolve up to its first await (telegram_bot.py:111;
\* main.py:166-168; evolver.py:48-56)
BotOnEvolve ==
    /\ Running /\ bot.pc = "on_evolve"
    /\ evolution_count < MaxEvolutions
    /\ evolution_count' = evolution_count + 1
    /\ bot' = [bot EXCEPT !.pc = "in_evolve", !.did = Did(FALSE, "evolve")]
    /\ UNCHANGED <<engineVars, ev>>

\* evolve returned its summary, which the handler sends (telegram_bot.py:112),
\* or called sys.exit(42) (evolver.py:143).
BotEvolveEnds ==
    /\ Running /\ bot.pc = "in_evolve"
    /\ \E merged \in BOOLEAN :
         IF merged
         THEN /\ exit_code' = 42 /\ exit_by' = "evolver"
              /\ bot' = [bot EXCEPT !.did = Nothing]
         ELSE /\ bot' = [bot EXCEPT !.pc = "idle", !.did = Did(TRUE, "none")]
              /\ UNCHANGED <<exit_code, exit_by>>
    /\ UNCHANGED <<tasks, queue, pc, cur, res, tasks_processed, fifo, evolution_count, ev>>

(***************************************************************************)
(* Heartbeat.start and the whole of Heartbeat._beat (heartbeat.py:122-273) *)
(***************************************************************************)
\* heartbeat.py:214-216: an improvement task is seeded every SEED_EVERY beats,
\* after beat SEED_AFTER
SEED_EVERY == 20
SEED_AFTER == 5
\* heartbeat.py:233: evolution at beat EVOLVE_FIRST, then every EVOLVE_EVERY beats
EVOLVE_FIRST == 20
EVOLVE_EVERY == 50
\* heartbeat.py:246: the state file is written every PERSIST_EVERY beats
PERSIST_EVERY == 5
\* heartbeat.py:258: the repository is synchronised every SYNC_EVERY beats
SYNC_EVERY == 20
\* heartbeat.py:262: the playbooks are written every PLAYBOOKS_EVERY beats
PLAYBOOKS_EVERY == 100

\* The titles of the self-improvement templates, in the list's order
\* (heartbeat.py:26-97); nothing assigns to the list or to an element of it.
SELF_IMPROVEMENT_TASKS ==
    <<"Migrate Cradle system prompt to AgentPlaybooks Persona",
      "Perform a deep architecture review using Gemini 3.1 Pro",
      "Synchronize agent capabilities as official Skills",
      "Research and implement NanoClaw-style sub-agent spawning",
      "Audit and optimize multi-provider cost/performance",
      "Enhance Evolver with automated unit test generation",
      "Implement long-term memory consolidation (RLM)",
      "Research and implement revenue-generating agent skills">>

\* heartbeat.py:218-220: the template of the seed made with _improvement_index =
\* idx (a Python list counts from 0, a sequence from 1)
task_def(idx) == SELF_IMPROVEMENT_TASKS[(idx % Len(SELF_IMPROVEMENT_TASKS)) + 1]

\* A mutant of seed_due: a seed in every idle beat after beat SEED_AFTER.
seed_due_every_beat(bc, pending) == pending = 0 /\ bc > SEED_AFTER

\* heartbeat.py:214-216
seed_due(bc, pending) == bc % SEED_EVERY = 0 /\ pending = 0 /\ bc > SEED_AFTER

\* A mutant of evolve_due: every EVOLVE_EVERY beats only.
evolve_due_every_50(bc) == bc % EVOLVE_EVERY = 0

\* heartbeat.py:233
evolve_due(bc) == bc = EVOLVE_FIRST \/ (bc > EVOLVE_FIRST /\ bc % EVOLVE_EVERY = 0)

\* heartbeat.py:246
persist_due(bc) == bc % PERSIST_EVERY = 0

\* heartbeat.py:258 and the two early returns of _git_auto_sync
\* (heartbeat.py:369-376); repo: /app/repo/.git exists.
sync_due(bc, pending, repo) == bc > 0 /\ bc % SYNC_EVERY = 0 /\ pending = 0 /\ repo

\* heartbeat.py:262
playbooks_due(bc) == bc > 0 /\ bc % PLAYBOOKS_EVERY = 0

\* The next suspension point of a beat after the git auto-sync step.
from_playbooks(bc) == IF playbooks_due(bc) THEN "playbooks" ELSE "sleeping"

\* The next suspension point of a beat after the evolution step
\* (heartbeat.py:245-263).  _persist_state builds its dict outside its try block
\* (heartbeat.py:277-292): slicing a result or an error that is not a string (a
\* JSON number or object the LLM gave as "answer" or "summary") raises TypeError,
\* persist_ok = FALSE.  The skill fetch of lines 250-255 is skipped: the engine
\* is built without skills (main.py:127).
from_persist(bc, pending, persist_ok, repo) ==
    IF persist_due(bc) /\ ~persist_ok THEN "raised"
    ELSE IF sync_due(bc, pending, repo) THEN "auto_sync"
    ELSE from_playbooks(bc)

\* The next suspension point of a beat after the idle seeding (heartbeat.py:232-263)
from_seed(bc, pending, persist_ok, repo) ==
    IF evolve_due(bc) THEN "evolve" ELSE from_persist(bc, pending, persist_ok, repo)

\* A mutant of the loop's handler: no except clause.
beat_handler_missing(exc) == FALSE

\* "except Exception" around _beat (heartbeat.py:146-148)
beat_handler(exc) == caught_by_except_Exception(exc)

VARIABLES
    hb                \* Heartbeat: pc, the suspension point of start(); beat_count;
                      \* running, _running; ended, why start() was left ("no": it
                      \* was not).  History: first, beat_count at the first state;
                      \* beats, the beats started since; caught_at, the last of
                      \* these beats in which an exception was caught (0: none);
                      \* improvement_index, _improvement_index; first_index, its
                      \* value at the first state; seeds, the titles of the
                      \* improvement tasks seeded since; evolved_at, the
                      \* beat_count of each call of evolve() since; evolve_raised,
                      \* evolve() raised in the beat that runs or ran last;
                      \* raised_in, the step of _beat that the exception
                      \* caught last came out of ("none": nothing was caught);
                      \* idle, no task was pending when that beat left its
                      \* drain loop.  The world: behind, origin/main has commits
                      \* that the local HEAD lacks

beatVars == <<hb>>

\* beat_count of a running loop at which the model picks it up, with an empty
\* queue or one pending bootstrap task (0: the loop as constructed).
BeatCounts == {0, 4, 19, 49, 99, 179}

\* The seeds a loop can have made by beat bc, of which the model takes the two
\* ends: none (the queue was never empty at a multiple of SEED_EVERY), and one at
\* every such beat.
StartIndexes(bc) == {0, bc \div SEED_EVERY}

\* start() in its loop, about to run the beat after beat bc, idx seeds made
BeatFrom(bc, idx, behind) ==
    hb = [pc |-> "sleeping", beat_count |-> bc, running |-> TRUE, ended |-> "no",
          first |-> bc, beats |-> 0, caught_at |-> 0,
          improvement_index |-> idx, first_index |-> idx, seeds |-> <<>>,
          evolved_at |-> <<>>, evolve_raised |-> FALSE, raised_in |-> "none",
          idle |-> FALSE, behind |-> behind]

BeatInit == BeatFrom(0, 0, FALSE)

\* An exception of class exc leaves _beat (heartbeat.py:144-150)
BeatRaise(h, exc) ==
    IF beat_handler(exc)
    THEN [h EXCEPT !.pc = "sleeping", !.caught_at = h.beats]
    ELSE [h EXCEPT !.pc = "ended",
                   !.ended = IF exc = "SystemExit" THEN "exit42"
                             ELSE IF exc = "CancelledError" THEN "cancelled"
                             ELSE "crash"]

\* The beat goes on from the step "phase" to its next suspension point; evolve()
\* increments evolution_count before its first await (evolver.py:50).
BeatTail(phase, h) ==
    \E persist_ok \in BOOLEAN, repo \in BOOLEAN :
        LET bc == h.beat_count
            pending == pending_count(queue')
            nxt == IF phase = "seed" THEN from_seed(bc, pending, persist_ok, repo)
                   ELSE from_persist(bc, pending, persist_ok, repo)
        IN  /\ hb' = IF nxt = "raised"
                     THEN [BeatRaise(h, "Exception") EXCEPT !.raised_in = "persist"]
                     ELSE IF nxt = "evolve"
                     THEN [h EXCEPT !.pc = nxt, !.evolved_at = Append(@, bc)]
                     ELSE [h EXCEPT !.pc = nxt]
            /\ evolution_count' = IF nxt = "evolve" THEN evolution_count + 1
                                  ELSE evolution_count

\* After HbBeat or HbLoop: the drain loop awaits process_next, or it was left and
\* the beat goes on; the improvement task was seeded exactly if it was due.
AfterLoop(h) ==
    IF pc'["heartbeat"] # "sleep"
    THEN /\ hb' = [h EXCEPT !.pc = "drain"]
         /\ UNCHANGED evolution_count
    ELSE LET due == seed_due(h.beat_count, pending_count(queue))
         IN  /\ (Len(tasks') # Len(tasks)) = due
             /\ BeatTail("seed",
                         IF due
                         THEN [h EXCEPT !.improvement_index = @ + 1,
                                        !.seeds = Append(@, task_def(h.improvement_index)),
                                        !.idle = TRUE]
                         ELSE [h EXCEPT !.idle = pending_count(queue) = 0])

\* The loop of start() runs _beat (heartbeat.py:144-146, 157-164)
BeatStart ==
    /\ hb.pc = "sleeping" /\ hb.running /\ hb.beats < MaxBeats
    /\ HbBeat
    /\ AfterLoop([hb EXCEPT !.beat_count = @ + 1, !.beats = @ + 1,
                             !.evolve_raised = FALSE, !.idle = FALSE])
    /\ UNCHANGED ev

\* The reflection was stored: the head of the drain loop again (heartbeat.py:163)
BeatLoop ==
    /\ hb.pc = "drain"
    /\ HbLoop
    /\ AfterLoop(hb)
    /\ UNCHANGED ev

\* The pass of process_next succeeded; sys.exit(42) of task_engine.py:172 leaves
\* the beat as SystemExit
BeatPassSucceeds ==
    /\ hb.pc = "drain"
    /\ PassSucceeds("heartbeat")
    /\ hb' = IF exit_code' = 42 THEN BeatRaise(hb, "SystemExit") ELSE hb
    /\ UNCHANGED <<evolution_count, ev>>

\* process_next raised (heartbeat.py:164)
BeatPassRaises ==
    /\ hb.pc = "drain"
    /\ PassRaises("heartbeat")
    /\ hb' = [BeatRaise(hb, "Exception") EXCEPT !.raised_in = "drain"]
    /\ UNCHANGED <<evolution_count, ev>>

\* evolve() returned its summary, which is sent to the chat, or raised, or
\* called sys.exit(42) (heartbeat.py:235-243; evolver.py:143-146)
BeatEvolveEnds ==
    /\ Running /\ hb.pc = "evolve"
    /\ UNCHANGED <<tasks, queue, pc, cur, res, tasks_processed, fifo, ev>>
    /\ \E outcome \in {"returned", "raised", "merged"} :
         IF outcome = "merged"
         THEN /\ exit_code' = 42 /\ exit_by' = "evolver"
              /\ hb' = BeatRaise(hb, "SystemExit")
              /\ UNCHANGED evolution_count
         ELSE IF outcome = "raised" /\ ~caught_by_except_Exception("Exception")
         THEN /\ hb' = [BeatRaise(hb, "Exception") EXCEPT !.raised_in = "evolve",
                                                          !.evolve_raised = TRUE]
              /\ UNCHANGED <<evolution_count, exit_code, exit_by>>
         ELSE /\ BeatTail("evolve", IF outcome = "raised"
                                    THEN [hb EXCEPT !.evolve_raised = TRUE]
                                    ELSE hb)
              /\ UNCHANGED <<exit_code, exit_by>>

\* The fetch and the count of _git_auto_sync returned (heartbeat.py:378-409);
\* counted: rev-list succeeded.  No beat gets
\* here (AutoSyncNeverFetches below), so the action is no disjunct of NextBeat.
BeatAutoSyncEnds ==
    /\ Running /\ hb.pc = "auto_sync"
    /\ \E counted \in BOOLEAN :
         IF counted /\ hb.behind
         THEN /\ exit_code' = 42 /\ exit_by' = "auto_sync"
              /\ hb' = BeatRaise(hb, "SystemExit")
         ELSE /\ hb' = [hb EXCEPT !.pc = from_playbooks(hb.beat_count)]
              /\ UNCHANGED <<exit_code, exit_by>>
    /\ UNCHANGED <<tasks, queue, pc, cur, res, tasks_processed, fifo, evolution_count, ev>>

\* _persist_to_agentplaybooks returned; it catches its exceptions
\* (heartbeat.py:262-263, 302-364)
BeatPlaybooksEnds ==
    /\ Running /\ hb.pc = "playbooks"
    /\ hb' = [hb EXCEPT !.pc = "sleeping"]
    /\ UNCHANGED <<engineVars, evolution_count, ev>>

\* The task running start() is cancelled at the await it is suspended in
\* (main.py:283-286)
BeatCancelled ==
    /\ Running /\ hb.pc # "ended"
    /\ hb' = BeatRaise(hb, "CancelledError")
    /\ UNCHANGED <<engineVars, evolution_count, ev>>

\* Heartbeat.stop (heartbeat.py:152-155)
BeatStop ==
    /\ Running /\ hb.running
    /\ hb' = [hb EXCEPT !.running = FALSE]
    /\ UNCHANGED <<engineVars, evolution_count, ev>>

\* The sleep is over and _running is false (heartbeat.py:144, 150)
BeatLoopEnds ==
    /\ Running /\ hb.pc = "sleeping" /\ ~hb.running
    /\ hb' = [hb EXCEPT !.pc = "ended", !.ended = "stop"]
    /\ UNCHANGED <<engineVars, evolution_count, ev>>

(***************************************************************************)
(* Sandbox (sandbox.py)                                                    *)
(***************************************************************************)
\* sandbox.py:29
MAX_OUTPUT_BYTES == 50000

\* The coroutines that can be inside run_python / run_shell of the one Sandbox
\* at the same time (task_engine.py:148-154 under the heartbeat and under the
\* chat handler).
SandboxCallers == {"heartbeat", "chat"}

\* Lengths of what a program writes to one stream: nothing, the cap, more.
OutputLengths == {0, MAX_OUTPUT_BYTES, MAX_OUTPUT_BYTES + 1}

\* proc.returncode of a program that ended by itself
ReturnCodes == {0, 1}

\* A stream of a SandboxResult: whose text it is, its length without the
\* truncation marker, and whether the marker "\n... [TRUNCATED]" follows.
Stream(text, len, marker) == [text |-> text, len |-> len, marker |-> marker]

\* sandbox.py:270-275, 339-341: one stream of the program, cut at the cap
capped(len) ==
    IF len > MAX_OUTPUT_BYTES
    THEN Stream("program", MAX_OUTPUT_BYTES, TRUE)
    ELSE Stream("program", len, FALSE)

\* A stream of the program as decoded (sandbox.py:335-336)
decoded(len) == Stream("program", len, FALSE)

\* The SandboxResult of _exec_with_stdin for a program that ended
\* (sandbox.py:266-285)
exec_with_stdin_result(out, err, rc, method) ==
    [success |-> rc = 0, stdout |-> capped(out), stderr |-> capped(err),
     exit_code |-> rc, method |-> method,
     truncated |-> (out > MAX_OUTPUT_BYTES \/ err > MAX_OUTPUT_BYTES)]

\* The SandboxResult of _exec for a program that ended (sandbox.py:335-351)
exec_result(out, err, rc, method) ==
    [success |-> rc = 0, stdout |-> capped(out), stderr |-> decoded(err),
     exit_code |-> rc, method |-> method,
     truncated |-> out > MAX_OUTPUT_BYTES]

\* The SandboxResult after a timeout (sandbox.py:259-264, 328-333)
timeout_result(method) ==
    [success |-> FALSE, stdout |-> Stream("", 0, FALSE),
     stderr |-> Stream("TIMEOUT: Killed after", 0, FALSE),
     exit_code |-> -1, method |-> method, truncated |-> FALSE]

\* The SandboxResult when the command cannot be started (sandbox.py:293-306,
\* 353-366): code -2 for FileNotFoundError, -3 for any other exception.
error_result(code, method) ==
    [success |-> FALSE, stdout |-> Stream("", 0, FALSE),
     stderr |-> Stream(IF code = -2 THEN "Command not found" ELSE "Sandbox error", 0, FALSE),
     exit_code |-> code, method |-> method, truncated |-> FALSE]

\* No result yet
NoSandboxResult == error_result(0, "none")

\* asyncio's Process.kill (sandbox.py:257, 326): SIGKILL to the process that
\* create_subprocess_exec started (the docker client, python or bash), and to no
\* other process.
kill(alive) == alive \ {"child"}

\* method of the SandboxResult (sandbox.py:171, 189, 215, 231)
method_of(kind, docker) ==
    IF docker THEN (IF kind = "python" THEN "dind-stdin" ELSE "dind-shell-stdin")
    ELSE "subprocess"

VARIABLES
    sandbox,          \* Sandbox: docker_available, _docker_available ("None" before
                      \* it is set).  History: probes, the "docker version" probes
                      \* started; calls, the run_python / run_shell calls started
    run               \* per caller, its call: pc; kind (python, shell); docker, the
                      \* answer of _check_docker; alive, what the call launched and
                      \* is running; result.  History: out, err, the lengths the
                      \* program wrote; timed_out

sandboxVars == <<sandbox, run>>

IdleRun ==
    [pc |-> "idle", kind |-> "none", docker |-> FALSE, alive |-> {},
     result |-> NoSandboxResult, out |-> 0, err |-> 0, timed_out |-> FALSE]

SandboxInit ==
    /\ sandbox = [docker_available |-> "None", probes |-> 0, calls |-> 0]
    /\ run = [c \in SandboxCallers |-> IdleRun]

\* The command is started (sandbox.py:244-253, 315-324): the process is running.
launched(r, docker) ==
    [r EXCEPT !.pc = "exec", !.docker = docker, !.alive = {"child"}]

\* run_python / run_shell up to the first await (sandbox.py:99-123, 76-87): the
\* memoized answer is used, or the probe is started.
SandboxRun(c, kind) ==
    /\ run[c].pc = "idle"
    /\ sandbox.calls < MaxCalls
    /\ LET r == [IdleRun EXCEPT !.kind = kind]
       IN  IF sandbox.docker_available # "None"
           THEN /\ run' = [run EXCEPT ![c] = launched(r, sandbox.docker_available = "True")]
                /\ sandbox' = [sandbox EXCEPT !.calls = @ + 1]
           ELSE /\ run' = [run EXCEPT ![c] = [r EXCEPT !.pc = "probe"]]
                /\ sandbox' = [sandbox EXCEPT !.calls = @ + 1, !.probes = @ + 1]

\* The probe returned (sandbox.py:87-97): works is returncode == 0;
\* FileNotFoundError and the 5 s timeout read as not available.
ProbeReturns(c) ==
    /\ run[c].pc = "probe"
    /\ \E works \in BOOLEAN :
         /\ sandbox' = [sandbox EXCEPT !.docker_available = IF works THEN "True" ELSE "False"]
         /\ run' = [run EXCEPT ![c] = launched(@, works)]

\* The probe raised another exception (PermissionError of create_subprocess_exec,
\* sandbox.py:82-93): nothing is memoized and the exception leaves the call.
ProbeRaises(c) ==
    /\ run[c].pc = "probe"
    /\ run' = [run EXCEPT ![c] = [@ EXCEPT !.pc = "idle"]]
    /\ UNCHANGED sandbox

\* The program ended before the timeout (sandbox.py:266-291, 335-351); the
\* container paths use _exec_with_stdin, the subprocess fallback _exec.
ProgramEnds(c) ==
    /\ run[c].pc = "exec"
    /\ \E out \in OutputLengths, err \in OutputLengths, rc \in ReturnCodes :
         LET method == method_of(run[c].kind, run[c].docker)
         IN  run' = [run EXCEPT ![c] =
                       [@ EXCEPT !.pc = "idle", !.alive = {}, !.out = out, !.err = err,
                                 !.result = IF run[c].docker
                                            THEN exec_with_stdin_result(out, err, rc, method)
                                            ELSE exec_result(out, err, rc, method)]]
    /\ UNCHANGED sandbox

\* The timeout expired (sandbox.py:256-264, 325-333): kill, wait, return.
\* spawned: the program has started processes of its own (a container started
\* by the docker client, children of the script).
ProgramTimesOut(c) ==
    /\ run[c].pc = "exec"
    /\ \E spawned \in BOOLEAN :
         run' = [run EXCEPT ![c] =
                   [@ EXCEPT !.pc = "idle", !.timed_out = TRUE,
                             !.alive = kill(@ \cup (IF spawned THEN {"descendant"} ELSE {})),
                             !.result = timeout_result(method_of(run[c].kind, run[c].docker))]]
    /\ UNCHANGED sandbox

\* The command could not be started (sandbox.py:293-306, 353-366)
ProgramNotStarted(c) ==
    /\ run[c].pc = "exec"
    /\ \E code \in {-2, -3} :
         run' = [run EXCEPT ![c] =
                   [@ EXCEPT !.pc = "idle", !.alive = {},
                             !.result = error_result(code, method_of(run[c].kind, run[c].docker))]]
    /\ UNCHANGED sandbox

(***************************************************************************)
(* One ReAct pass in detail: TaskEngine._think, _extract_json, _react_loop *)
(* and _reflect on one task (task_engine.py:88-374)                        *)
(***************************************************************************)
\* The dict of a JSON value that is no plan
NoPlan == [type |-> "", answer |-> "", code |-> "", nsub |-> 0]

\* What json.loads returns: kind is the Python type, truthy its truth value, plan
\* the keys the pass reads when the value is a dict.
Json(kind, truthy, plan) == [kind |-> kind, truthy |-> truthy, plan |-> plan]
JsonObject(plan) == Json("dict", TRUE, plan)
None == Json("NoneType", FALSE, NoPlan)

\* json.loads raised JSONDecodeError, or the strategy found no candidate
Unparsable == Json("JSONDecodeError", FALSE, NoPlan)

\* A response text is what each strategy's candidate parses to: the whole text,
\* the first fenced block, first "{" to last "}", the same without trailing
\* commas (task_engine.py:343-372).  raw names the text.
Text(raw, whole, fence, braces, fixed) ==
    [raw |-> raw, whole |-> whole, fence |-> fence, braces |-> braces, fixed |-> fixed]

\* The texts the router can return: a JSON object bare, fenced, in prose, with
\* trailing commas; JSON values that are no object; a fenced list; no JSON.
ResponseTexts ==
    {Text("object", JsonObject(p), Unparsable, JsonObject(p), JsonObject(p)) : p \in Plans}
    \cup {Text("fenced object", Unparsable, JsonObject(p), JsonObject(p), JsonObject(p)) : p \in Plans}
    \cup {Text("object in prose", Unparsable, Unparsable, JsonObject(p), JsonObject(p)) : p \in Plans}
    \cup {Text("trailing commas", Unparsable, Unparsable, Unparsable, JsonObject(p)) : p \in Plans}
    \cup {Text("[1, 2]", Json("list", TRUE, NoPlan), Unparsable, Unparsable, Unparsable),
          Text("[]", Json("list", FALSE, NoPlan), Unparsable, Unparsable, Unparsable),
          Text("42", Json("int", TRUE, NoPlan), Unparsable, Unparsable, Unparsable),
          Text("null", None, Unparsable, Unparsable, Unparsable),
          Text("{}", Json("dict", FALSE, NoPlan), Unparsable,
               Json("dict", FALSE, NoPlan), Json("dict", FALSE, NoPlan)),
          Text("fenced list", Unparsable, Json("list", TRUE, NoPlan), Unparsable, Unparsable),
          Text("hello", Unparsable, Unparsable, Unparsable, Unparsable)}

\* TaskEngine._extract_json (task_engine.py:339-374): the first strategy whose
\* json.loads does not raise returns what it parsed.
extract_json(text) ==
    IF text.whole # Unparsable THEN text.whole
    ELSE IF text.fence # Unparsable THEN text.fence
    ELSE IF text.braces # Unparsable THEN text.braces
    ELSE IF text.fixed # Unparsable THEN text.fixed
    ELSE None

\* The end of _think (task_engine.py:279-287): the parsed value if it is truthy,
\* else the direct answer that carries the text.
think(text) ==
    LET parsed == extract_json(text)
    IN  IF parsed.truthy THEN parsed
        ELSE JsonObject([type |-> "direct_answer", answer |-> text.raw, code |-> "", nsub |-> 0])

\* What _reflect returns (task_engine.py:315-337): the parsed value if it is truthy
\* (a dict with any should_retry, or a value that is no dict), else a dict.
ReflectionValues ==
    {[kind |-> "dict", should_retry |-> b, summary |-> "Task completed"] : b \in BOOLEAN}
    \cup {[kind |-> "list", should_retry |-> FALSE, summary |-> ""]}

NoReflection == [kind |-> "NoneType", should_retry |-> FALSE, summary |-> ""]

VARIABLES
    \* ---- one ReAct pass ----
    rp   \* the task, the queue, and what the pass did

reactVars == <<rp>>

\* The id of the task of the pass, and of a task that waits behind it
PassTask == 1
OtherTask == 2

\* Before process_next: the task is pending at the head of the queue after
\* "attempts" passes.  History: rest, the queue after the dequeue; text, the
\* router's response; plan, what _think returned; sandbox_calls, reflect_calls;
\* success and stdout of the SandboxResult; raised_at, where an exception left the
\* pass.
ReactFrom(attempts, q) ==
    rp = [pc |-> "queued", queue |-> q, attempts |-> attempts, status |-> "pending",
          result |-> "", error |-> "", children |-> 0, exit_code |-> 0,
          rest |-> <<>>, text |-> "", parsed |-> None, plan |-> None,
          sandbox_calls |-> 0, reflect_calls |-> 0, success |-> FALSE, stdout |-> "",
          reflection |-> NoReflection, raised_at |-> "no"]

ReactInit == ReactFrom(0, <<PassTask>>)

\* process_next up to the await of the router in _think (task_engine.py:88-108, 277)
ReactProcessNext ==
    /\ rp.pc = "queued"
    /\ LET g == get_nowait(rp.queue)
       IN  rp' = [rp EXCEPT !.pc = "think", !.queue = g.rest, !.rest = g.rest,
                            !.attempts = @ + 1, !.status = "thinking"]

\* The router raised RuntimeError in _think (llm_router.py:132), or the sandbox
\* driver raised (sandbox.py:76-97): the exception leaves _react_loop.
ReactAwaitRaises ==
    /\ rp.pc \in {"think", "exec"}
    /\ rp' = [rp EXCEPT !.pc = "raised",
                        !.raised_at = IF rp.pc = "think" THEN "router" ELSE "sandbox"]

\* The router returned text: _think ends and _react_loop branches on the plan,
\* up to the await of the sandbox (task_engine.py:108-154, 277-287).  plan.get on
\* a value that is no dict raises AttributeError.
ReactThinkReturns ==
    /\ rp.pc = "think"
    /\ \E text \in ResponseTexts :
         LET plan == think(text)
             r == [rp EXCEPT !.text = text.raw, !.parsed = extract_json(text), !.plan = plan]
         IN  IF plan.kind # "dict"
             THEN rp' = [r EXCEPT !.pc = "raised", !.raised_at = "plan"]
             ELSE CASE plan_branch(plan.plan) = "answer" ->
                         rp' = [r EXCEPT !.pc = "returned", !.result = plan.plan.answer,
                                         !.status = "completed"]
                    [] plan_branch(plan.plan) = "decompose" ->
                         rp' = [r EXCEPT !.pc = "returned", !.children = plan.plan.nsub,
                                         !.queue = @ \o [k \in 1..plan.plan.nsub |-> OtherTask + k],
                                         !.status = "blocked"]
                    [] plan_branch(plan.plan) = "no_code" ->
                         rp' = [r EXCEPT !.pc = "returned",
                                         !.error = "Think phase produced no code",
                                         !.status = "failed"]
                    [] plan_branch(plan.plan) = "execute" ->
                         rp' = [r EXCEPT !.pc = "exec", !.status = "executing",
                                         !.sandbox_calls = @ + 1]

\* The sandbox returned; _reflect awaits the router (task_engine.py:156-158, 315-321)
ReactSandboxReturns ==
    /\ rp.pc = "exec"
    /\ \E success \in BOOLEAN :
         rp' = [rp EXCEPT !.pc = "reflect", !.status = "reflecting", !.success = success,
                          !.reflect_calls = @ + 1]

\* _reflect returned; the pass ends (task_engine.py:158-196).  reflection.get on a
\* value that is no dict raises AttributeError.
ReactReflectReturns ==
    /\ rp.pc = "reflect"
    /\ \E refl \in ReflectionValues, r \in SandboxResults :
         LET q == [rp EXCEPT !.reflection = refl, !.stdout = r.stdout]
         IN  /\ r.success = rp.success
             /\ IF refl.kind # "dict"
                THEN rp' = [q EXCEPT !.pc = "raised", !.raised_at = "reflection"]
                ELSE IF rp.success
                THEN rp' = [q EXCEPT !.result = IF r.stdout # "" THEN r.stdout ELSE refl.summary,
                                     !.status = "completed",
                                     !.exit_code = IF self_update_pushed(r.stdout) THEN 42 ELSE 0,
                                     !.pc = IF self_update_pushed(r.stdout) THEN "exited" ELSE "returned"]
                ELSE IF should_requeue(rp.attempts, refl.should_retry)
                THEN rp' = [q EXCEPT !.error = IF r.stderr # "" THEN r.stderr ELSE "Unknown error",
                                     !.queue = put_nowait(@, PassTask),
                                     !.status = "pending", !.pc = "returned"]
                ELSE rp' = [q EXCEPT !.error = IF r.stderr # "" THEN r.stderr ELSE "Unknown error",
                                     !.status = "failed", !.pc = "returned"]

(***************************************************************************)
(* Heartbeat._persist_state and the file state.json (heartbeat.py:245-301) *)
(***************************************************************************)
\* state.json: version is the beat_count of the snapshot being in it (0: no
\* such file); part is how much of that snapshot's JSON text the file holds.
NoStateFile == [version |-> 0, part |-> "missing"]

VARIABLES
    \* ---- state persistence ----
    state_file,  \* the file state.json on disk
    persist      \* the heartbeat's process: where it is, and its beat_count

persistVars == <<state_file, persist>>

\* A fresh data directory and a fresh process
PersistInit ==
    /\ state_file = NoStateFile
    /\ persist = [pc |-> "sleeping", beat_count |-> 0]

\* A beat up to the persistence test (heartbeat.py:159, 245-247) and the building
\* of the state dict (heartbeat.py:277-293)
PersistBeat ==
    /\ persist.pc = "sleeping"
    /\ persist.beat_count < MaxPersistBeats
    /\ persist' = [pc |-> IF persist_due(persist.beat_count + 1) THEN "open" ELSE "sleeping",
                   beat_count |-> persist.beat_count + 1]
    /\ UNCHANGED state_file

\* open(state_path, "w") creates or truncates the file (heartbeat.py:298)
PersistOpens ==
    /\ persist.pc = "open"
    /\ state_file' = [version |-> persist.beat_count, part |-> "empty"]
    /\ persist' = [persist EXCEPT !.pc = "dump"]

\* os.makedirs or open raised OSError, which line 300 catches (heartbeat.py:296-301)
PersistOpenFails ==
    /\ persist.pc = "open"
    /\ persist' = [persist EXCEPT !.pc = "sleeping"]
    /\ UNCHANGED state_file

\* json.dump has written a part of the text to the file (heartbeat.py:299)
PersistWrites ==
    /\ persist.pc = "dump"
    /\ state_file.part = "empty"
    /\ state_file' = [state_file EXCEPT !.part = "partial"]
    /\ UNCHANGED persist

\* json.dump has written the rest and the file is closed (heartbeat.py:298-299)
PersistCloses ==
    /\ persist.pc = "dump"
    /\ state_file' = [state_file EXCEPT !.part = "complete"]
    /\ persist' = [persist EXCEPT !.pc = "sleeping"]

\* A write raised OSError (disk full), which line 300 catches: the file keeps
\* what was written (heartbeat.py:298-301)
PersistDumpFails ==
    /\ persist.pc = "dump"
    /\ persist' = [persist EXCEPT !.pc = "sleeping"]
    /\ UNCHANGED state_file

\* The process ends at any instant: a kill, a power loss, sys.exit(42) of a
\* concurrent handler between two beats.
PersistCrash ==
    /\ persist.pc # "crashed"
    /\ persist' = [persist EXCEPT !.pc = "crashed"]
    /\ UNCHANGED state_file

\* The supervisor starts the process again: Heartbeat.__init__ (heartbeat.py:117);
\* nothing reads state.json.
PersistRestart ==
    /\ persist.pc = "crashed"
    /\ persist' = [pc |-> "sleeping", beat_count |-> 0]
    /\ UNCHANGED state_file

(***************************************************************************)
(* One provider call: LLMRouter._call_gemini, _call_openai_compatible and  *)
(* the try block of complete() around it (llm_router.py:83-254)            *)
(***************************************************************************)
\* What the POST comes to: a network error (httpx raises), or a response with
\* its status and its body.  The body is no JSON; JSON that is no object; an
\* object without the candidates / choices key; with an empty list; with a first
\* element that is no object; with a first element without content; with content
\* null; with the text of a completion.
Replies ==
    {[transport |-> "error", status |-> 0, body |-> ""]}
    \cup [transport : {"response"}, status : {200, 429, 500},
          body : {"not json", "json list", "no candidates", "empty candidates",
                  "candidate not an object", "candidate without content",
                  "content null", "text"}]

\* What the call of a provider comes to
Raised == [raised |-> TRUE, content |-> ""]
LLMResponse(content) == [raised |-> FALSE, content |-> content]

\* _call_gemini (llm_router.py:176-198) and _call_openai_compatible
\* (llm_router.py:233-254): raise_for_status raises on a status outside 2xx,
\* resp.json() on a body that is no JSON, data.get and candidates[0].get on a value
\* that is no dict; a missing key or an empty list leaves text = "".  The two
\* differ in the names of the keys only.
call_provider(reply) ==
    IF reply.transport = "error" THEN Raised
    ELSE IF reply.status \notin 200..299 THEN Raised
    ELSE IF reply.body \in {"not json", "json list", "candidate not an object"} THEN Raised
    ELSE IF reply.body = "text" THEN LLMResponse("hi")
    ELSE LLMResponse("")

VARIABLES
    \* ---- one complete() call, reply by reply ----
    pv   \* the loop of complete(): its position, the counters, the replies, the outcome

providerVars == <<pv>>

\* complete() before its loop, with the failures counted so far.  History:
\* replies, the reply of each provider called, with what the router made of it.
ProviderFrom(failures) ==
    pv = [pc |-> "idle", i |-> 0, errors |-> [n \in ProviderNames |-> 0],
          consecutive_failures |-> failures, replies |-> <<>>,
          response |-> Raised]

ProviderInit == ProviderFrom([n \in ProviderNames |-> 0])

\* complete() is called with every provider configured and none demoted
\* (llm_router.py:60-86)
ProviderCallStarts ==
    /\ pv.pc \in {"idle", "returned", "raised"}
    /\ Len(pv.replies) + Len(ConfiguredProviders) <= MaxReplies
    /\ pv' = [pv EXCEPT !.pc = "await", !.i = 1, !.response = Raised]

\* The awaited _call_provider is over (llm_router.py:83-132): the response is
\* returned, or the failure is counted and the loop goes on to the next provider,
\* and raises RuntimeError after the last.
ProviderReplies ==
    /\ pv.pc = "await"
    /\ \E reply \in Replies :
         LET name == ConfiguredProviders[pv.i].name
             out == call_provider(reply)
             seen == [provider |-> name, reply |-> reply, failed |-> out.raised]
         IN  IF out.raised
             THEN /\ pv.consecutive_failures[name] < MaxFailures
                  /\ pv' = [pv EXCEPT !.errors[name] = @ + 1,
                                      !.consecutive_failures[name] = @ + 1,
                                      !.replies = Append(@, seen),
                                      !.i = IF pv.i < Len(ConfiguredProviders) THEN @ + 1 ELSE 0,
                                      !.pc = IF pv.i < Len(ConfiguredProviders)
                                             THEN "await" ELSE "raised"]
             ELSE pv' = [pv EXCEPT !.consecutive_failures[name] = 0,
                                   !.replies = Append(@, seen),
                                   !.response = out, !.i = 0, !.pc = "returned"]

vars == <<engineVars, routerVars, evolverVars, bootVars, botVars, beatVars, sandboxVars,
         reactVars, persistVars, providerVars>>

\* The router with no call in it and one provider list
RouterAtRest ==
    /\ RouterInit
    /\ providers = ConfiguredProviders

\* The task engine under the heartbeat and the chat handler, in a process that
\* found the sentinel; the router and the evolver are at rest.
Init == EngineInit /\ RouterAtRest /\ EvolverInit /\ BootInit /\ BotInit /\ BeatInit /\ SandboxInit
        /\ ReactInit /\ PersistInit /\ ProviderInit
EngineOnly == UNCHANGED <<routerVars, evolverVars, bootVars, botVars, beatVars, sandboxVars, reactVars, persistVars, providerVars>>
Next ==
    \/ ChatTask /\ EngineOnly
    \/ HbBeat /\ EngineOnly
    \/ HbSelfHeal /\ EngineOnly
    \/ HbLoop /\ EngineOnly
    \/ \E c \in Callers : ThinkDirectAnswer(c) /\ EngineOnly
    \/ \E c \in Callers : ThinkDecompose(c) /\ EngineOnly
    \/ \E c \in Callers : ThinkNoCode(c) /\ EngineOnly
    \/ \E c \in Callers : ThinkCode(c) /\ EngineOnly
    \/ \E c \in Callers : SandboxReturn(c) /\ EngineOnly
    \/ \E c \in Callers : PassSucceeds(c) /\ EngineOnly
    \/ \E c \in Callers : PassFails(c) /\ EngineOnly
    \/ \E c \in Callers : PassRaises(c) /\ EngineOnly
Spec == Init /\ [][Next]_vars

\* The router under its callers.
InitRouter == EngineInit /\ RouterInit /\ EvolverInit /\ BootInit /\ BotInit /\ BeatInit /\ SandboxInit
        /\ ReactInit /\ PersistInit /\ ProviderInit
RouterOnly == UNCHANGED <<engineVars, evolverVars, bootVars, botVars, beatVars, sandboxVars, reactVars, persistVars, providerVars>>
NextRouter ==
    \/ \E c \in RouterCallers, preferred \in Preferred : RouterCall(c, preferred) /\ RouterOnly
    \/ \E c \in RouterCallers : ProviderSucceeds(c) /\ RouterOnly
    \/ \E c \in RouterCallers : ProviderFails(c) /\ RouterOnly
    \/ Tick /\ RouterOnly
SpecRouter == InitRouter /\ [][NextRouter]_vars

\* The evolver under its callers.
InitEvolver == EngineInit /\ RouterAtRest /\ EvolverInit /\ BootInit /\ BotInit /\ BeatInit /\ SandboxInit
        /\ ReactInit /\ PersistInit /\ ProviderInit
EvolverOnly == UNCHANGED <<engineVars, routerVars, bootVars, botVars, beatVars, sandboxVars, reactVars, persistVars, providerVars>>
NextEvolver ==
    \/ \E c \in EvolveCallers : EvolveStart(c) /\ EvolverOnly
    \/ ProposeReturns /\ EvolverOnly
    \/ EvolveRaises /\ EvolverOnly
    \/ TestReturns /\ EvolverOnly
    \/ StoreFailureReturns /\ EvolverOnly
    \/ CreateReturns /\ EvolverOnly
    \/ PushReturns /\ EvolverOnly
    \/ MergeReturns /\ EvolverOnly
    \/ CleanupReturns /\ EvolverOnly
    \/ DeleteReturns /\ EvolverOnly
    \/ MemoryReturns /\ EvolverOnly
SpecEvolver == InitEvolver /\ [][NextEvolver]_vars

\* The starts and stops of the process on one data directory.
InitBoot == EngineInit /\ RouterAtRest /\ EvolverInit /\ BootInit /\ BotInit /\ BeatInit /\ SandboxInit
        /\ ReactInit /\ PersistInit /\ ProviderInit
BootOnly ==
    UNCHANGED <<pc, cur, res, tasks_processed, exit_code, exit_by, fifo,
                routerVars, evolverVars, botVars, beatVars, sandboxVars, reactVars, persistVars, providerVars>>
NextBoot ==
    \/ BootStart /\ BootOnly
    \/ BootStoreReturns /\ BootOnly
    \/ BootSeedTask /\ BootOnly
    \/ BootMark /\ BootOnly
    \/ ProcessStops /\ BootOnly
SpecBoot == InitBoot /\ [][NextBoot]_vars

\* The chat transport: updates of any sender, and the task engine and the
\* evolver as the handlers' callbacks drive them.
InitBot == EngineInit /\ RouterAtRest /\ EvolverInit /\ BootInit /\ BotInit /\ BeatInit /\ SandboxInit
        /\ ReactInit /\ PersistInit /\ ProviderInit
BotOnly == UNCHANGED <<routerVars, bootVars, beatVars, sandboxVars, reactVars, persistVars, providerVars>>
BotPass == UNCHANGED <<routerVars, evolverVars, bootVars, botVars, beatVars, sandboxVars, reactVars, persistVars, providerVars>>
NextBot ==
    \/ \E kind \in UpdateKinds, u \in Users, chat \in ChatIds, args \in BOOLEAN :
           BotUpdate(kind, u, chat, args) /\ BotOnly
    \/ BotOnTask /\ BotOnly
    \/ BotTaskReply /\ BotOnly
    \/ BotTaskRaises /\ BotOnly
    \/ BotOnEvolve /\ BotOnly
    \/ BotEvolveEnds /\ BotOnly
    \/ ThinkDirectAnswer("chat") /\ BotPass
    \/ ThinkDecompose("chat") /\ BotPass
    \/ ThinkNoCode("chat") /\ BotPass
    \/ ThinkCode("chat") /\ BotPass
    \/ SandboxReturn("chat") /\ BotPass
    \/ PassSucceeds("chat") /\ BotPass
    \/ PassFails("chat") /\ BotPass
SpecBot == InitBot /\ [][NextBot]_vars

\* The heartbeat loop, picked up at several beat counts, with the task engine
\* under it.
InitBeat ==
    /\ RouterAtRest /\ EvolverInit /\ BootInit /\ BotInit /\ SandboxInit
    /\ ReactInit /\ PersistInit /\ ProviderInit
    /\ \E bc \in BeatCounts, behind \in BOOLEAN :
         \E idx \in StartIndexes(bc) : BeatFrom(bc, idx, behind)
    /\ \E seeded \in BOOLEAN :
         LET a == add_task(<<>>, <<>>, 0, "bootstrap")
         IN  /\ tasks = IF seeded THEN a.tasks ELSE <<>>
             /\ queue = IF seeded THEN a.queue ELSE <<>>
             /\ fifo = [enq |-> queue, deq |-> <<>>, pure |-> TRUE]
    /\ pc = [c \in Callers |-> IF c = "chat" THEN "idle" ELSE "sleep"]
    /\ cur = [c \in Callers |-> 0]
    /\ res = [c \in Callers |-> NoResult]
    /\ tasks_processed = 0
    /\ exit_code = 0
    /\ exit_by = "none"
BeatOnly == UNCHANGED <<routerVars, bootVars, botVars, sandboxVars, reactVars, persistVars, providerVars>>
BeatPass == hb.pc = "drain" /\ UNCHANGED <<routerVars, evolverVars, bootVars, botVars, beatVars, sandboxVars, reactVars, persistVars, providerVars>>
NextBeat ==
    \/ BeatStart /\ BeatOnly
    \/ BeatLoop /\ BeatOnly
    \/ BeatPassSucceeds /\ BeatOnly
    \/ BeatPassRaises /\ BeatOnly
    \/ BeatEvolveEnds /\ BeatOnly
    \/ BeatPlaybooksEnds /\ BeatOnly
    \/ BeatCancelled /\ BeatOnly
    \/ BeatStop /\ BeatOnly
    \/ BeatLoopEnds /\ BeatOnly
    \/ BeatPass /\ HbSelfHeal
    \/ BeatPass /\ ThinkDirectAnswer("heartbeat")
    \/ BeatPass /\ ThinkDecompose("heartbeat")
    \/ BeatPass /\ ThinkNoCode("heartbeat")
    \/ BeatPass /\ ThinkCode("heartbeat")
    \/ BeatPass /\ SandboxReturn("heartbeat")
    \/ BeatPass /\ PassFails("heartbeat")
SpecBeat == InitBeat /\ [][NextBeat]_vars

\* The sandbox driver under its callers.
InitSandbox ==
    /\ EngineInit /\ RouterAtRest /\ EvolverInit /\ BootInit /\ BotInit /\ BeatInit
    /\ SandboxInit
    /\ ReactInit /\ PersistInit /\ ProviderInit
SandboxOnly ==
    UNCHANGED <<engineVars, routerVars, evolverVars, bootVars, botVars, beatVars,
                reactVars, persistVars, providerVars>>
NextSandbox ==
    \/ \E c \in SandboxCallers, kind \in {"python", "shell"} : SandboxRun(c, kind) /\ SandboxOnly
    \/ \E c \in SandboxCallers : ProbeReturns(c) /\ SandboxOnly
    \/ \E c \in SandboxCallers : ProbeRaises(c) /\ SandboxOnly
    \/ \E c \in SandboxCallers : ProgramEnds(c) /\ SandboxOnly
    \/ \E c \in SandboxCallers : ProgramTimesOut(c) /\ SandboxOnly
    \/ \E c \in SandboxCallers : ProgramNotStarted(c) /\ SandboxOnly
SpecSandbox == InitSandbox /\ [][NextSandbox]_vars

\* Everything but the variables of the three sections that follow
RestInit ==
    EngineInit /\ RouterAtRest /\ EvolverInit /\ BootInit /\ BotInit /\ BeatInit /\ SandboxInit
restVars == <<engineVars, routerVars, evolverVars, bootVars, botVars, beatVars, sandboxVars>>

\* One ReAct pass on a task that has had 0 to max_attempts - 1 passes, alone in
\* the queue or with a task behind it.
InitReact ==
    /\ RestInit /\ PersistInit /\ ProviderInit
    /\ \E attempts \in 0..(max_attempts - 1), q \in {<<PassTask>>, <<PassTask, OtherTask>>} :
         ReactFrom(attempts, q)
ReactOnly == UNCHANGED <<restVars, persistVars, providerVars>>
NextReact ==
    \/ ReactProcessNext /\ ReactOnly
    \/ ReactAwaitRaises /\ ReactOnly
    \/ ReactThinkReturns /\ ReactOnly
    \/ ReactSandboxReturns /\ ReactOnly
    \/ ReactReflectReturns /\ ReactOnly
SpecReact == InitReact /\ [][NextReact]_vars

\* The state file under the beats, the crashes and the restarts of the process.
InitPersist == RestInit /\ ReactInit /\ PersistInit /\ ProviderInit
PersistOnly == UNCHANGED <<restVars, reactVars, providerVars>>
NextPersist ==
    \/ PersistBeat /\ PersistOnly
    \/ PersistOpens /\ PersistOnly
    \/ PersistOpenFails /\ PersistOnly
    \/ PersistWrites /\ PersistOnly
    \/ PersistCloses /\ PersistOnly
    \/ PersistDumpFails /\ PersistOnly
    \/ PersistCrash /\ PersistOnly
    \/ PersistRestart /\ PersistOnly
SpecPersist == InitPersist /\ [][NextPersist]_vars

\* complete() calls, reply by reply, from any count of earlier failures.
InitProvider ==
    /\ RestInit /\ ReactInit /\ PersistInit
    /\ \E failures \in [ProviderNames -> 0..(MAX_CONSECUTIVE_FAILURES - 1)] :
         ProviderFrom(failures)
ProviderOnly == UNCHANGED <<restVars, reactVars, persistVars>>
NextProvider ==
    \/ ProviderCallStarts /\ ProviderOnly
    \/ ProviderReplies /\ ProviderOnly
SpecProvider == InitProvider /\ [][NextProvider]_vars


(***************************************************************************)
(* Properties of the task engine, checked under Spec.                      *)
(***************************************************************************)
TaskIds == 1..Len(tasks)

Terminal == {"completed", "failed"}

\* C1 (terminal status monotonicity): a task whose status is completed or failed
\* keeps that status in every step of every caller: add_task, process_next from
\* the heartbeat or the chat handler, a retry re-enqueue, a self-healing spawn,
\* the decomposition of another task.
C1_TerminalStatusMonotonic ==
    [][\A t \in TaskIds :
          tasks[t].status \in Terminal => tasks'[t].status = tasks[t].status]_vars

\* A failed task whose self-healing child was spawned, dequeued and completed.
C1_Witness ==
    \E t \in TaskIds, u \in TaskIds :
        /\ tasks[t].status = "failed"
        /\ tasks[u].parent_id = t /\ tasks[u].source = "self-healing"
        /\ tasks[u].status = "completed"

\* C2 (retry bound): attempts never exceeds max_attempts; attempts changes only
\* by +1, exactly when a pending task enters a ReAct pass; a pass that ends on a
\* failed execution with attempts = max_attempts leaves the task failed whatever
\* the reflection says, and a task with max_attempts attempts is never pending again.
C2_RetryBound ==
    /\ [](\A t \in TaskIds : tasks[t].attempts <= max_attempts)
    /\ [][\A t \in TaskIds :
            /\ (tasks'[t].status = "thinking" /\ tasks[t].status # "thinking")
                   => tasks'[t].attempts = tasks[t].attempts + 1
            /\ tasks'[t].attempts # tasks[t].attempts
                   => /\ tasks'[t].attempts = tasks[t].attempts + 1
                      /\ tasks[t].status = "pending" /\ tasks'[t].status = "thinking"
            /\ tasks[t].attempts >= max_attempts => tasks'[t].status # "pending"
            /\ (/\ tasks[t].attempts >= max_attempts
                /\ tasks[t].status = "reflecting" /\ tasks'[t].status # "reflecting"
                /\ \E c \in Callers : cur[c] = t /\ res[c] = FALSE)
                   => tasks'[t].status = "failed"]_vars

\* A task that failed in the sandbox on its third pass.
C2_Witness ==
    \E t \in TaskIds :
        /\ tasks[t].attempts = max_attempts
        /\ tasks[t].status = "failed"
        /\ tasks[t].error = "Unknown error"

\* s is an initial segment of t
IsPrefix(s, t) == Len(s) <= Len(t) /\ SubSeq(t, 1, Len(s)) = s

\* C6 (queue discipline): as long as no decomposition and no retry re-enqueue has
\* occurred, the ids process_next has dequeued are, in order, the first ids
\* add_task enqueued.
C6_QueueFifo == fifo.pure => IsPrefix(fifo.deq, fifo.enq)

\* The heartbeat seeded task 1, the chat handler added task 2 behind it and
\* dequeued; both tasks have been dequeued.
C6_Witness ==
    /\ fifo.pure /\ fifo.enq = <<1, 2>> /\ fifo.deq = <<1, 2>>
    /\ tasks[1].source = "self-improvement" /\ tasks[2].source = "user"


(***************************************************************************)
(* Properties of the router, checked under SpecRouter.                     *)
(***************************************************************************)
Names(seq) == [k \in DOMAIN seq |-> seq[k].name]

\* The provider list with the preferred provider, if it is in the list, moved to
\* the front.
ExpectedOrder(ps, preferred) ==
    SelectSeq(ps, LAMBDA pr : pr.name = preferred)
        \o SelectSeq(ps, LAMBDA pr : pr.name # preferred)

Tries(log) == SelectSeq(log, LAMBDA e : e.act = "try")

\* C3 (router ordering): the provider list is sorted by priority, and in every
\* complete() call the providers the loop has decided on are, in order and without
\* repetition, the first providers of that list with the preferred one moved to the
\* front; a provider is skipped exactly when its demoted_until lies after the
\* call's now; only the last decision can be an attempt that has not failed, and
\* the call ends with it if it succeeds; the call raises only after the whole list.
C3_RouterOrdering ==
    /\ \A j, k \in DOMAIN providers :
          j < k => providers[j].priority < providers[k].priority
    /\ \A c \in RouterCallers :
          LET r == call[c]
              expected == Names(ExpectedOrder(providers, r.preferred))
          IN  r.pc # "idle" =>
                /\ IsPrefix(Names(r.log), expected)
                /\ \A k \in DOMAIN r.log :
                      /\ (r.log[k].act = "skip") <=> r.log[k].demoted
                      /\ k < Len(r.log) => r.log[k].result \in {"skipped", "fail"}
                /\ r.pc = "await" => r.log # <<>> /\ r.log[Len(r.log)].result = "pending"
                /\ r.pc = "returned" => r.log # <<>> /\ r.log[Len(r.log)].result = "ok"
                /\ r.pc = "raised" =>
                      /\ Names(r.log) = expected
                      /\ \A k \in DOMAIN r.log : r.log[k].result \in {"skipped", "fail"}

\* A call that prefers groq, skipped it as demoted and got its answer from gemini.
C3_Witness ==
    \E c \in RouterCallers :
        /\ call[c].pc = "returned" /\ call[c].preferred = "groq"
        /\ Len(call[c].log) = 2
        /\ call[c].log[1].name = "groq" /\ call[c].log[1].act = "skip"
        /\ call[c].log[2].name = "gemini" /\ call[c].log[2].result = "ok"

\* C4 (demotion): a provider is attempted only if its current failure streak has
\* no third failure or that failure is at least DEMOTION_COOLDOWN_SECS old; a
\* provider is skipped only if it had a third (or later) consecutive failure less
\* than DEMOTION_COOLDOWN_SECS before the call's now.
C4_Demotion ==
    \A c \in RouterCallers : \A k \in DOMAIN call[c].log :
        /\ call[c].log[k].act = "try" => call[c].log[k].cooled
        /\ call[c].log[k].act = "skip" => call[c].log[k].marked

\* One call skipped a demoted provider; a call that began when the cooldown of the
\* provider's third failure was over is attempting it.
C4_Witness ==
    \E c \in RouterCallers, d \in RouterCallers :
        /\ call[c].pc = "await"
        /\ LET name == call[c].order[call[c].i].name
           IN  /\ health[name].third # {}
               /\ \A t \in health[name].third : call[c].now >= t + DEMOTION_COOLDOWN_SECS
               /\ \E k \in DOMAIN call[d].log :
                     call[d].log[k].name = name /\ call[d].log[k].act = "skip"

\* C5 (router outcome): a call that is over has returned if one of its attempts
\* succeeded and has raised otherwise; the response is that of the successful
\* attempt, which is the last and the only one; the error raised carries the
\* error of the last provider tried (none if every provider was skipped).
C5_RouterOutcome ==
    \A c \in RouterCallers :
        LET r == call[c]
            tries == Tries(r.log)
            succeeded == \E k \in DOMAIN tries : tries[k].result = "ok"
        IN  /\ r.pc = "returned" =>
                /\ succeeded
                /\ tries[Len(tries)].result = "ok"
                /\ \A k \in 1..(Len(tries) - 1) : tries[k].result = "fail"
                /\ r.response = [provider |-> tries[Len(tries)].name]
            /\ r.pc = "raised" =>
                /\ ~succeeded
                /\ r.response = "None"
                /\ r.last_error = IF tries = <<>> THEN NoError
                                  ELSE [from |-> tries[Len(tries)].name]
            /\ r.pc \in {"idle", "await"} => ~succeeded

\* A call raised after both providers failed.
C5_Witness ==
    \E c \in RouterCallers :
        /\ call[c].pc = "raised"
        /\ Len(Tries(call[c].log)) = 2
        /\ call[c].last_error = [from |-> call[c].log[2].name]


(***************************************************************************)
(* Properties of the evolver, checked under SpecEvolver.                   *)
(***************************************************************************)
\* The full path or the last segment of path is in the protected set.
ProtectedPath(path) == path \in PROTECTED \/ <<path[Len(path)]>> \in PROTECTED

Ops(log) == [k \in DOMAIN log |-> log[k].op]

RepoSteps == {"create_branch", "push_files", "merge_branch"}

\* op was awaited and returned True
Succeeded(log, op) == \E k \in DOMAIN log : log[k].op = op /\ log[k].ok

\* C7 (protected files): whatever paths the proposal holds, no path handed to
\* push_files / put_file and no path merged into the default branch is in the
\* protected set, by its full path or by its basename.
C7_ProtectedFiles ==
    \A path \in Range(ev.files) \cup ev.put \cup ev.merged : ~ProtectedPath(path)

\* A proposal that named a protected file was pushed and merged.
C7_Witness ==
    /\ ev.merged # {}
    /\ \E k \in DOMAIN ev.proposed : ProtectedPath(ev.proposed[k])

\* C8 (evolution success protocol): exit 42 is requested only after create_branch,
\* push_files, merge_branch, delete_branch and the memory write were awaited in
\* that order and the first three succeeded; and an evolve() call that is over and
\* whose create_branch, push_files and merge_branch succeeded has requested it,
\* from the heartbeat as from the chat handler.
C8_EvolutionSuccessProtocol ==
    /\ ev.exit \in {0, 42}
    /\ ev.exit = 42 =>
          /\ Ops(ev.log) = <<"create_branch", "push_files", "merge_branch",
                             "delete_branch", "memory_store">>
          /\ \A k \in 1..3 : ev.log[k].ok
    /\ (ev.pc = "done" /\ \A op \in RepoSteps : Succeeded(ev.log, op)) => ev.exit = 42

\* The heartbeat's evolve() requested exit 42.
C8_Witness == ev.exit = 42 /\ ev.caller = "heartbeat"

\* Some repository step of the call returned False
RepoStepFailure == \E k \in DOMAIN ev.log : ev.log[k].op \in RepoSteps /\ ~ev.log[k].ok

FailureSummaries == {FailureSummary(step) : step \in RepoSteps}

NoRetry == \A j, k \in DOMAIN ev.log : ev.log[j].op = ev.log[k].op => j = k

C10_BootstrapOnce == boot.seed_runs <= 1 /\ boot.marker_writes <= 1

(***************************************************************************)
(* Properties of the chat transport, checked under SpecBot.                *)
(***************************************************************************)
\* The sender of an update has the allowed handle.
HasAllowedHandle(u) == u.user /\ u.named /\ u.username = allowed_user

\* C11 (chat authorization): a step that handles an update (of any kind: a
\* command or free text) whose sender's handle differs from the allowed handle,
\* or that has no sender or no handle, invokes no callback, sends no reply, and
\* changes neither the task table, the queue, the stored chat id, the
\* evolution count nor anything else of the engine and the evolver; the
\* handler is back at rest.
C11_ChatAuthorization ==
    [][(bot'.flip # bot.flip /\ ~HasAllowedHandle(bot'.sender))
          => /\ bot'.did = Nothing
             /\ bot'.chat_id = bot.chat_id
             /\ bot'.pc = "idle"
             /\ UNCHANGED <<engineVars, evolverVars>>]_vars

\* An update of another handle arrived after the allowed user had talked to the
\* bot and a task existed.
C11_Witness ==
    /\ bot.sender.named /\ ~HasAllowedHandle(bot.sender)
    /\ bot.did = Nothing /\ bot.pc = "idle"
    /\ bot.chat_id # 0
    /\ Len(tasks) > 0

\* C12 (/task runs the submitted task immediately): the ReAct pass that the
\* task handler starts is a pass on the task it has just added, and the reply
\* reports that task, whatever the queue held when the message arrived.
C12_TaskRunsSubmittedTask ==
    /\ bot.pc = "in_task" => bot.ran = bot.added
    /\ bot.reported # 0 => bot.reported = bot.added

(***************************************************************************)
(* Properties of the heartbeat loop, checked under SpecBeat.               *)
(***************************************************************************)
\* In a beat that is a multiple of SYNC_EVERY the queue is not empty when
\* _git_auto_sync is called: either it was not empty after the drain loop, or the
\* idle seeding has just put an improvement task into it.  The fetch is never
\* started.
AutoSyncNeverFetches == hb.pc # "auto_sync"

\* C13 as stated (exit-42 origin): status 42 is requested by the evolver or by
\* the repo auto-sync only.
C13_ExitOriginEvolverOrSync ==
    exit_code = 42 => exit_by \in {"evolver", "auto_sync"}

\* C13, amended: status 42 is requested only by the evolver, by the repo
\* auto-sync, or by the task engine at the end of a successful pass whose stdout
\* contains SELF_UPDATE_PUSHED (the task is completed with that output as its
\* result); no other component requests it, and the loop is left by it.
C13_ExitOrigin ==
    exit_code = 42 =>
        /\ exit_by \in {"evolver", "auto_sync", "task_engine"}
        /\ hb.ended = "exit42"
        /\ exit_by = "evolver" => evolution_count > 0
        /\ exit_by = "task_engine" =>
              /\ cur["heartbeat"] \in TaskIds
              /\ tasks[cur["heartbeat"]].status = "completed"
              /\ tasks[cur["heartbeat"]].result = SELF_UPDATE_PUSHED

\* The task engine asked for the restart while other tasks ended without one.
C13_Witness ==
    /\ exit_code = 42 /\ exit_by = "task_engine"
    /\ \E t \in TaskIds : tasks[t].status \in Terminal /\ tasks[t].result # SELF_UPDATE_PUSHED

\* C14 (the heartbeat never crashes): start() is left only through stop(),
\* cancellation or an exit-42 request; beat_count grows by exactly 1 per beat and
\* by nothing else; an exception raised inside a beat (by process_next, by the
\* state persistence) is caught, after which the loop is asleep, still running,
\* and the process has not been asked to exit.
C14_HeartbeatNeverCrashes ==
    /\ [](hb.ended \in {"no", "stop", "cancelled", "exit42"})
    /\ [](hb.ended = "stop" => ~hb.running)
    /\ [](hb.ended = "exit42" => exit_code = 42)
    /\ [](hb.beat_count = hb.first + hb.beats)
    /\ [][/\ hb'.beats \in {hb.beats, hb.beats + 1}
          /\ hb'.beat_count = hb.beat_count + (hb'.beats - hb.beats)
          /\ hb'.caught_at # hb.caught_at =>
                /\ hb'.pc = "sleeping" /\ hb'.ended = "no"
                /\ hb'.running = hb.running
                /\ exit_code' = 0]_vars

\* An exception was caught in the first beat and the second beat ran and ended
\* asleep.
C14_Witness ==
    /\ hb.caught_at = 1 /\ hb.beats = 2
    /\ hb.pc = "sleeping" /\ hb.ended = "no"

(***************************************************************************)
(* Properties of the sandbox driver, checked under SpecSandbox.            *)
(***************************************************************************)
\* The calls whose program ended by itself
Finished ==
    {c \in SandboxCallers : run[c].pc = "idle" /\ run[c].result.exit_code \in ReturnCodes
                            /\ run[c].result.method # "none"}

\* The stream is the first MAX_OUTPUT_BYTES units of what the program wrote,
\* followed by the truncation marker.
CutAtCap(stream) ==
    stream.text = "program" /\ stream.len = MAX_OUTPUT_BYTES /\ stream.marker

\* C15 (output cap): in every execution mode, a stream of a finished program
\* that is longer than the cap is returned as its first 50,000 units followed by
\* the truncation marker, and truncated is true exactly if one of the two
\* streams exceeded the cap.
C15_OutputCap ==
    \A c \in Finished :
        /\ run[c].out > MAX_OUTPUT_BYTES => CutAtCap(run[c].result.stdout)
        /\ run[c].err > MAX_OUTPUT_BYTES => CutAtCap(run[c].result.stderr)
        /\ run[c].result.truncated =
              (run[c].out > MAX_OUTPUT_BYTES \/ run[c].err > MAX_OUTPUT_BYTES)

\* C16 (sandbox timeout): a call whose program ran into the timeout has
\* returned success = false, exit_code = -1, an empty stdout and the synthetic
\* stderr, and nothing that the call launched is still running.
C16_SandboxTimeout ==
    \A c \in SandboxCallers :
        (run[c].pc = "idle" /\ run[c].timed_out) =>
            /\ ~run[c].result.success
            /\ run[c].result.exit_code = -1
            /\ run[c].result.stdout = Stream("", 0, FALSE)
            /\ run[c].result.stderr.text = "TIMEOUT: Killed after"
            /\ run[c].alive = {}

\* C17 (probe memoization): over all calls on one driver, concurrent ones
\* included, the container-runtime probe is started at most once.
C17_ProbeAtMostOnce == sandbox.probes <= 1

(***************************************************************************)
(* Further properties of the evolver, checked under SpecEvolver.           *)
(***************************************************************************)
\* The proposal that evolve() got names a protected path.
NamesProtected == \E k \in DOMAIN ev.accepted : ProtectedPath(ev.accepted[k])

\* No branch was created and no file was put.
RepoUntouched == "create_branch" \notin Range(Ops(ev.log)) /\ ev.put = {}

\* evolve() returned the summary that gives the skip reason.
Skipped == ev.pc = "done" /\ ev.summary = "All proposed files are protected"

\* The paths of a sequence of paths that are not protected, in their order
Unprotected(files) == SelectSeq(files, LAMBDA path : ~ProtectedPath(path))

C20_OneChangePerEvolution ==
    /\ Len(ev.files) <= 1
    /\ Cardinality(ev.put) <= 1
    /\ Cardinality(ev.merged) <= 1

(***************************************************************************)
(* Self-healing, checked under Spec.                                       *)
(***************************************************************************)
\* The self-healing children of task t
HealingChildren(t) ==
    {k \in DOMAIN tasks : tasks[k].parent_id = t /\ tasks[k].source = "self-healing"}

\* The caller c is between the pass that ended on task t and the end of its own
\* handling of that result.
Handling(c, t) == cur[c] = t /\ pc[c] \in InPass \cup {"notify"}

\* C18 (self-healing): every task that went to failed with a non-empty error,
\* once its caller has handled the result, has exactly one self-healing child
\* whose parent_id is the task.  (The child's description is text built from the
\* parent's fields and is not part of the state.)
C18_SelfHealing ==
    \A t \in DOMAIN tasks :
        (/\ tasks[t].status = "failed"
         /\ tasks[t].error # ""
         /\ \A c \in DOMAIN pc : ~Handling(c, t))
        => Cardinality(HealingChildren(t)) = 1

(***************************************************************************)
(* The gates of the evolver, checked under SpecEvolver.                    *)
(***************************************************************************)
\* evolve() has asked the repository for a branch or put a file.
ReachedRepository == "create_branch" \in Range(Ops(ev.log)) \/ ev.put # {}

\* C21 (risk gate): a proposal that reached the repository has risk low or
\* medium; a proposal with risk high, with no risk, or with any other risk is
\* rejected before any sandbox test and any repository call.
C21_RiskGate ==
    /\ ReachedRepository => ev.risk \in {"low", "medium"}
    /\ (ev.pc # "propose" /\ ev.risk \notin {"low", "medium"}) =>
           ~ev.test_run.ran /\ ~ReachedRepository

\* C22 (test gate): a proposal with test_code that goes on has its test run in
\* the sandbox without network and with a timeout of 30 seconds before any
\* repository call; when the test fails the proposal is rejected: no branch, no
\* file put or merged, no exit 42, and the store of a failure record is awaited
\* before evolve() returns the summary of the failed test.
C22_TestGate ==
    /\ (ev.pc \notin {"idle", "propose"} /\ ~blank(ev.test_code) /\ ev.files # <<>>) =>
           /\ ev.test_run = [ran |-> TRUE, timeout |-> 30, network |-> FALSE]
           /\ ReachedRepository => ev.tested = "passed"
    /\ ev.tested = "failed" =>
           /\ ~ReachedRepository
           /\ ev.merged = {}
           /\ ev.exit # 42
           /\ ev.pc \in {"store_failure", "done"}
           /\ ev.pc = "done" =>
                  /\ Ops(ev.log) = <<"memory_store_failure">>
                  /\ ev.summary = "Proposed changes failed testing"

\* A proposal whose test failed was rejected with the failure record stored.
C22_Witness ==
    /\ ev.pc = "done" /\ ev.tested = "failed" /\ ev.test_run.ran
    /\ Succeeded(ev.log, "memory_store_failure")

(***************************************************************************)
(* The task table and the queue, checked under Spec.                       *)
(***************************************************************************)
\* How many times x occurs in the sequence seq
Occurrences(seq, x) == Cardinality({k \in DOMAIN seq : seq[k] = x})

\* C24 (pending/queue correspondence): every task whose status is pending has
\* its id in the queue exactly once, and no id is in the queue more than once.
C24_PendingQueued ==
    /\ \A t \in DOMAIN tasks :
           tasks[t].status = "pending" => Occurrences(queue, t) = 1
    /\ \A k \in DOMAIN queue : Occurrences(queue, queue[k]) = 1

\* A task waits in the queue for its retry while a caller is in a pass on
\* another task.
C24_Witness ==
    \E t \in DOMAIN tasks, c \in Callers :
        /\ tasks[t].status = "pending" /\ tasks[t].attempts > 0
        /\ Occurrences(queue, t) = 1
        /\ pc[c] \in InPass /\ cur[c] # t

\* C25 (task tree consistency): every parent_id is unset or the id of a task of
\* the table; every id in a task's children belongs to a task whose parent_id is
\* that task; every child of a decomposition or of self-healing is in its
\* parent's children exactly once.
C25_TaskTree ==
    \A t \in DOMAIN tasks :
        /\ tasks[t].parent_id = 0 \/ tasks[t].parent_id \in DOMAIN tasks
        /\ \A k \in DOMAIN tasks[t].children :
               /\ tasks[t].children[k] \in DOMAIN tasks
               /\ tasks[tasks[t].children[k]].parent_id = t
        /\ tasks[t].source \in {"self", "self-healing"} =>
               /\ tasks[t].parent_id \in DOMAIN tasks
               /\ Occurrences(tasks[tasks[t].parent_id].children, t) = 1

\* A blocked task has the subtask of its decomposition as its child.
C25_Witness ==
    \E t, u \in DOMAIN tasks :
        /\ tasks[t].status = "blocked"
        /\ tasks[u].source = "self" /\ tasks[u].parent_id = t
        /\ tasks[t].children = <<u>>

(***************************************************************************)
(* Properties of one ReAct pass, checked under SpecReact.                  *)
(***************************************************************************)
\* _think has returned a dict whose type is ty.
PlanOfType(ty) ==
    rp.pc \notin {"queued", "think"} /\ rp.plan.kind = "dict" /\ rp.plan.plan.type = ty

\* C23 (direct answer): when Think yields a plan of type direct_answer, the pass
\* returns with result = answer and status completed, and has called neither
\* the sandbox nor the reflection.
C23_DirectAnswer ==
    PlanOfType("direct_answer") =>
        /\ rp.pc = "returned"
        /\ rp.result = rp.plan.plan.answer
        /\ rp.status = "completed"
        /\ rp.sandbox_calls = 0
        /\ rp.reflect_calls = 0

\* The LLM's JSON object was a direct answer, and its answer is the result.
C23_Witness ==
    /\ PlanOfType("direct_answer") /\ rp.text = "object"
    /\ rp.result = "hi" /\ rp.status = "completed"

C29_UnknownPlanShape ==
    PlanOfType("other") =>
        /\ rp.pc = "returned"
        /\ rp.status = "completed"
        /\ rp.sandbox_calls = 0

\* C30 (plan extraction is total): for every response text, the Think phase
\* yields a plan and no exception comes of it; when no strategy yields a JSON
\* object, the plan is a direct answer that carries the text.
C30_PlanExtractionTotal ==
    rp.text # "" =>
        /\ rp.raised_at # "plan"
        /\ rp.plan.kind = "dict"
        /\ rp.parsed.kind # "dict" =>
               /\ rp.plan.plan.type = "direct_answer"
               /\ rp.plan.plan.answer = rp.text

(***************************************************************************)
(* The state file, checked under SpecPersist.                              *)
(***************************************************************************)
\* C26 (atomic state snapshot): at every instant the snapshot file holds a
\* complete snapshot (the previous one or the new one), never an empty or a
\* partial one.
C26_AtomicSnapshot == state_file.part \in {"missing", "complete"}

(***************************************************************************)
(* The classification of provider replies, checked under SpecProvider.     *)
(***************************************************************************)
\* A network error, a status outside 2xx, or a body without the completion
Failure(reply) ==
    \/ reply.transport = "error"
    \/ reply.status < 200 \/ reply.status > 299
    \/ reply.body # "text"

\* C27 (provider failure classification): every network error, non-2xx status
\* and malformed body is counted as a failure of its provider and followed by
\* the next provider; no such reply is returned as a response.
C27_FailureClassification ==
    \A k \in DOMAIN pv.replies : Failure(pv.replies[k].reply) => pv.replies[k].failed

C32_PerBeatCap ==
    /\ [](tasks_processed <= 3)
    /\ [][/\ (pc["heartbeat"] # "think" /\ pc'["heartbeat"] = "think") =>
                /\ pc["heartbeat"] \in {"sleep", "store"}
                /\ cur["heartbeat"] = 0
                /\ queue # <<>>
                /\ tasks_processed' < 3
          /\ (pc["heartbeat"] = "store" /\ (queue = <<>> \/ tasks_processed = 3)) =>
                pc'["heartbeat"] \in {"store", "sleep"}]_vars

\* The third pass of a beat has returned while a task is still pending.
C32_Witness ==
    /\ pc["heartbeat"] = "store" /\ tasks_processed = 3
    /\ queue # <<>>

\* C33: the beat that leaves its drain loop seeds one improvement task exactly
\* if its beat_count is a multiple of 20, above 5, and no task is pending; the
\* seed made after k seeds carries template k mod 8 of the list;
\* _improvement_index grows by one with each seed and never otherwise, and no
\* other step adds a task of source "self-improvement".
C33_IdleSeeding ==
    /\ [](/\ hb.improvement_index = hb.first_index + Len(hb.seeds)
          /\ \A i \in 1..Len(hb.seeds) :
                hb.seeds[i] = SELF_IMPROVEMENT_TASKS[((hb.first_index + i - 1) % 8) + 1])
    /\ [][LET seeded == /\ Len(tasks') = Len(tasks) + 1
                        /\ tasks'[Len(tasks')].source = "self-improvement"
              leaves == /\ pc["heartbeat"] \in {"sleep", "store"}
                        /\ pc'["heartbeat"] = "sleep"
                        /\ hb'.beats = hb.beats + 1 \/ hb.pc = "drain"
                        /\ hb'.ended = "no"
              bc == hb'.beat_count
          IN  /\ seeded <=> (/\ leaves
                             /\ bc % 20 = 0 /\ bc > 5
                             /\ queue = <<>>)
              /\ seeded => /\ hb'.improvement_index = hb.improvement_index + 1
                           /\ queue' = <<Len(tasks')>>
                           /\ tasks'[Len(tasks')].status = "pending"
              /\ ~seeded => hb'.improvement_index = hb.improvement_index]_vars

\* The ninth seed of a loop has been made: it carries the first template again.
C33_Witness ==
    /\ hb.first_index = 8 /\ hb.improvement_index = 9
    /\ hb.seeds = <<SELF_IMPROVEMENT_TASKS[1]>>
    /\ hb.beat_count = 180
    /\ Len(tasks) > 0 /\ tasks[Len(tasks)].source = "self-improvement"

\* The steps of C34 that do not depend on which beats get to the evolution step:
\* evolve() is called only in a beat with beat_count 20 or a later multiple of 50,
\* at most once in a beat; when it raises an Exception, the beat goes on with the
\* steps after it (the state file is due in every such beat: it is written, or
\* the exception caught last is its own).
EvolveOnCadenceOnly ==
    LET called == hb'.evolved_at # hb.evolved_at
        bc == hb'.beat_count
        raised == hb.pc = "evolve" /\ hb'.evolve_raised
    IN  /\ called => /\ bc = 20 \/ (bc > 20 /\ bc % 50 = 0)
                     /\ hb'.evolved_at = Append(hb.evolved_at, bc)
                     /\ \A i \in 1..Len(hb.evolved_at) : hb.evolved_at[i] # bc
                     /\ hb'.pc = "evolve"
                     /\ evolution_count' = evolution_count + 1
        /\ raised => /\ hb'.ended = "no" /\ hb'.pc # "ended"
                     /\ hb'.raised_in # "evolve"
                     /\ hb'.beat_count = hb.beat_count
                     /\ \/ hb'.caught_at = hb.beats /\ hb'.raised_in = "persist"
                        \/ hb'.caught_at # hb.beats /\
                             hb'.pc = IF bc % 100 = 0 THEN "playbooks" ELSE "sleeping"

C35_AutoSyncWhenIdle ==
    /\ (/\ hb.beats > 0 /\ hb.beat_count % 20 = 0
        /\ hb.idle /\ hb.behind
        /\ hb.caught_at # hb.beats) => hb.pc \notin {"sleeping", "playbooks"}
    /\ hb.pc = "auto_sync" => hb.idle

\* C36: with the chat handler and the heartbeat interleaving at their awaits, at
\* most one pass on a task is in flight: two passes in progress are on different
\* tasks, and the task of a pass in progress is not in the queue, where no id
\* stands twice, so that it cannot be dequeued before its pass ends.  attempts
\* changes only by one, in the step in which a caller that was in no pass takes
\* that id off the head of the queue and starts a pass on it.
C36_NoDoubleProcessing ==
    /\ [](/\ (pc["chat"] \in InPass /\ pc["heartbeat"] \in InPass) =>
                 cur["chat"] # cur["heartbeat"]
          /\ \A c \in Callers : pc[c] \in InPass =>
                 /\ cur[c] \in 1..Len(tasks)
                 /\ \A i \in 1..Len(queue) : queue[i] # cur[c]
          /\ \A i, j \in 1..Len(queue) : queue[i] = queue[j] => i = j)
    /\ [][\A t \in 1..Len(tasks') :
            LET before == IF t <= Len(tasks) THEN tasks[t].attempts ELSE 0
            IN  tasks'[t].attempts # before =>
                  /\ tasks'[t].attempts = before + 1
                  /\ t = (IF queue # <<>> THEN Head(queue) ELSE Len(tasks) + 1)
                  /\ \A i \in 1..Len(queue') : queue'[i] # t
                  /\ \E c \in Callers : /\ pc[c] \notin InPass /\ pc'[c] = "think"
                                        /\ cur[c] # t /\ cur'[c] = t
                                        /\ \A d \in Callers \ {c} :
                                              pc[d] \in InPass => cur[d] # t]_vars

\* Both callers are in a pass at once, the heartbeat on the second attempt of a
\* task that the chat handler had dequeued for its first.
C36_Witness ==
    /\ pc["chat"] \in InPass /\ pc["heartbeat"] \in InPass
    /\ cur["chat"] # cur["heartbeat"]
    /\ tasks[cur["heartbeat"]].attempts = 2

\* C37: a task on which no pass is in progress has status pending, completed,
\* failed or blocked: no pass ends, by return or by an exception, with its task
\* left in thinking, acting, executing or reflecting; and a task that is not
\* pending is not waiting in the queue for nothing: what is neither in a pass nor
\* in the queue is completed, failed or blocked.
C37_NoStuckTransientStatus ==
    \A t \in 1..Len(tasks) :
        (\A c \in Callers : ~(pc[c] \in InPass /\ cur[c] = t)) =>
            /\ tasks[t].status \in {"pending", "completed", "failed", "blocked"}
            /\ (\A i \in 1..Len(queue) : queue[i] # t) =>
                   tasks[t].status \in {"completed", "failed", "blocked"}

C39_DemotionKeepsCounter ==
    [][\A p \in ProviderNames :
         LET n == consecutive_failures[p]
             failed == \E c \in RouterCallers :
                          /\ call[c].pc = "await" /\ call[c].order[call[c].i].name = p
                          /\ call'[c].log[call[c].i].result = "fail"
             succeeded == \E c \in RouterCallers :
                          /\ call[c].pc = "await" /\ call[c].order[call[c].i].name = p
                          /\ call'[c].pc = "returned" /\ call'[c].response = [provider |-> p]
         IN  /\ demoted_until'[p] # demoted_until[p] =>
                    /\ failed
                    /\ consecutive_failures'[p] = n + 1
                    /\ consecutive_failures'[p] >= 3
             /\ consecutive_failures'[p] # n =>
                    \/ failed /\ consecutive_failures'[p] = n + 1
                    \/ succeeded /\ consecutive_failures'[p] = 0
             /\ (failed /\ health[p].streak >= 3) =>
                    /\ n = health[p].streak
                    /\ demoted_until'[p] = clock + 300]_vars

\* A provider was demoted by its third failure at time 0, was tried again when
\* the 300 seconds were over, failed once and is demoted until 600.
C39_Witness ==
    \E p \in ProviderNames :
        /\ health[p].streak = 4 /\ consecutive_failures[p] = 4
        /\ health[p].third = {0} /\ health[p].bad = {300}
        /\ clock = 300 /\ demoted_until[p] = 600
        /\ \E c \in RouterCallers :
               \E i \in 1..Len(call[c].log) :
                   /\ call[c].log[i].name = p /\ call[c].log[i].act = "try"
                   /\ call[c].log[i].result = "fail"
                   /\ ~call[c].log[i].demoted /\ call[c].log[i].cooled

\* C40: the default branch receives files of the proposal only in the step in
\* which merge_branch succeeds; the merge is awaited only when create_branch has
\* succeeded and every file of the proposal was written to the evolution branch;
\* when a write has failed, put_file was still called for every file, and no
\* file of the proposal is on the default branch.
C40_AtomicPublication ==
    /\ [](/\ (ev.pc = "merge" \/ \E k \in DOMAIN ev.log : ev.log[k].op = "merge_branch") =>
                 /\ Succeeded(ev.log, "create_branch")
                 /\ Succeeded(ev.log, "push_files")
                 /\ ev.files # <<>>
                 /\ ev.written = {ev.files[i] : i \in 1..Len(ev.files)}
          /\ (\E k \in DOMAIN ev.log : ev.log[k].op = "push_files") =>
                 ev.put = {ev.files[i] : i \in 1..Len(ev.files)}
          /\ (ev.written # ev.put) =>
                 /\ ev.merged = {}
                 /\ ev.pc # "merge"
                 /\ ev.exit = 0
          /\ ev.merged \in {{}, {ev.files[i] : i \in 1..Len(ev.files)}})
    /\ [][ev'.merged # ev.merged =>
             \/ ev.pc = "merge" /\ ev'.log = Append(ev.log, Step("merge_branch", TRUE))
             \/ ev'.merged = {} /\ ev'.log = <<>>]_vars

\* The first write of a proposal failed, a later one succeeded, and evolve() has
\* ended with nothing merged.
C40_Witness ==
    /\ ev.pc = "done" /\ ev.merged = {}
    /\ \E i, j \in 1..Len(ev.files) :
           /\ i < j
           /\ ev.files[i] \notin ev.written
           /\ ev.files[j] \in ev.written
    /\ ev.put = {ev.files[i] : i \in 1..Len(ev.files)}
====
